---- MODULE Spec2Model ----
(***************************************************************************)
(* Responsible RAG copilot: chunking, corpus loading, embedding, index    *)
(* construction and retrieval (rag.py), the plan / draft / critic /        *)
(* revision pipeline (answer_pipeline.py), the /api/run handler with its   *)
(* three modes and the critic-output parser (app_new.py), and the two      *)
(* baselines of compare_systems.py.                                        *)
(*                                                                         *)
(* Texts produced by the language model are sequences of lexemes (tokens); *)
(* every lexeme has a character expansion, so that str.upper() and the     *)
(* substring test of run_pipeline work on characters while json.loads      *)
(* works on the lexemes.                                                   *)
(***************************************************************************)
EXTENDS Integers, Sequences, FiniteSets, TLC

VARIABLES
    entry,            \* which entry point runs: "run_pipeline" | "run_query" | a function harness
    pc,               \* position of the run inside its entry point
    rag,              \* the SimpleRAG instance: [texts, sources, embeddings]
    query,            \* the user question
    k,                \* number of chunks asked from retrieve
    query_vec,        \* <<v>> once the query was embedded, <<>> before
    retrieved,        \* list of {"text","similarity","source"} returned by retrieve
    plan,             \* <<p>> once generate_plan returned
    draft_answer,     \* <<d>> once the draft was generated
    critic_feedback,  \* raw critic output (sequence of lexemes), <<t>> once returned
    critic_parsed,    \* <<v>> once parse_critic_json returned
    revised,          \* <<r>> once the revision / safe rewrite request returned
    final_answer,     \* <<a>> once decided
    calls,            \* log of the capability / stage invocations of this run
    result,           \* <<dict>> once the entry point returned, <<>> otherwise
    raised,           \* <<[stage, cls, endpoint]>> once an exception left a stage
    surfaced,         \* <<what the caller gets to see of a failure>>
    mode,             \* "baseline" | "rag" | "responsible" of a /api/run request, "" otherwise
    path,             \* the corpus path SimpleRAG / load_corpus is given
    words,            \* split_into_chunks: words = text.split()
    max_words,        \* split_into_chunks: parameter
    overlap,          \* split_into_chunks: parameter
    loop_start,       \* start: loop variable of split_into_chunks and of embed_texts
    chunks,           \* split_into_chunks: the list being built
    texts,            \* embed_texts: parameter
    batch_size,       \* embed_texts: parameter
    all_vectors,      \* embed_texts: the rows collected so far
    process,          \* the program the process runs: the module executed as main
    loaded,           \* the modules whose import built a SimpleRAG in this process, in order
    served,           \* the modules whose instance answered the retrievals so far, in order
    request,          \* the JSON body of the /api/run request, <<>> otherwise
    prompt,           \* <<docs>>: the documents section of the latest chat request
    artifacts,        \* simple_trust_metrics: parameter
    runs,             \* the locals of the concurrent runs, one record per run
    isRunning,        \* page: let isRunning
    runBtnDisabled,   \* page: runBtn.disabled
    outGrid,          \* page: the cards inside #outGrid
    inflight,         \* page: fetch('/api/run') calls not yet settled
    runNo             \* page: number of the latest run started

vars == <<entry, pc, rag, query, k, query_vec, retrieved, plan, draft_answer,
          critic_feedback, critic_parsed, revised, final_answer, calls, result,
          raised, surfaced, mode, path, words, max_words, overlap, loop_start, chunks,
          texts, batch_size, all_vectors, process, loaded, served, request, prompt,
          artifacts, runs, isRunning, runBtnDisabled, outGrid, inflight, runNo>>

\* what the process is and what the entry points record about it
shell == <<process, loaded, served, request, prompt>>

\* the state only other programs and harnesses use
others == <<artifacts, runs, isRunning, runBtnDisabled, outGrid, inflight, runNo>>

\* no process of the application is modelled
ShellIdle ==
    /\ process = ""
    /\ loaded = <<>>
    /\ served = <<>>
    /\ request = <<>>
    /\ prompt = <<>>

\* no page, no concurrent runs, no metrics call
OthersIdle ==
    /\ artifacts = <<>>
    /\ runs = <<>>
    /\ isRunning = FALSE
    /\ runBtnDisabled = FALSE
    /\ outGrid = <<>>
    /\ inflight = 0
    /\ runNo = 0

\* the locals of the rag.py functions
locals == <<path, words, max_words, overlap, loop_start, chunks, texts, batch_size,
            all_vectors>>

\* no rag.py function is running
LocalsIdle ==
    /\ path = <<>>
    /\ words = <<>>
    /\ max_words = 0
    /\ overlap = 0
    /\ loop_start = 0
    /\ chunks = <<>>
    /\ texts = <<>>
    /\ batch_size = 0
    /\ all_vectors = <<>>

(***************************************************************************)
(* Bounds of the model.                                                    *)
(***************************************************************************)
\* longest critic output, in lexemes
MaxCriticTokens == 3
\* largest index, in chunks
MaxChunks == 3

(***************************************************************************)
(* Characters and strings.                                                 *)
(***************************************************************************)
LowerAlpha == <<"a","b","c","d","e","f","g","h","i","j","k","l","m",
                "n","o","p","q","r","s","t","u","v","w","x","y","z">>
UpperAlpha == <<"A","B","C","D","E","F","G","H","I","J","K","L","M",
                "N","O","P","Q","R","S","T","U","V","W","X","Y","Z">>

\* str.upper() on one (ASCII) character
UpperChar(c) ==
    IF \E i \in DOMAIN LowerAlpha : LowerAlpha[i] = c
    THEN UpperAlpha[CHOOSE i \in DOMAIN LowerAlpha : LowerAlpha[i] = c]
    ELSE c

\* case-sensitive variant, used to show that upper-casing matters
UpperStr_Identity(s) == s

\* str.upper()
UpperStr(s) == [i \in DOMAIN s |-> UpperChar(s[i])]

\* Python's `needle in hay` on character sequences
Contains(hay, needle) ==
    \E i \in 0..(Len(hay) - Len(needle)) :
        SubSeq(hay, i + 1, i + Len(needle)) = needle

\* the literal of answer_pipeline.py line 116
MARKER == <<"V","E","R","D","I","C","T",":"," ","R","E","V","I","S","E">>

(***************************************************************************)
(* Lexemes of a critic output and their characters.                        *)
(***************************************************************************)
\* "key": value groups that may stand between the braces of an object
Members == {"os", "seven", "sumRev"}

CriticTokens == {"{", "}", "[", "]", "num"} \cup Members \cup {"VERDICT:", " revise", "fine"}

VerdictKeys == {"overall_score", "grounding_score", "safety_score",
                "hallucination_risk", "issues", "suggestions", "summary"}

\* keys a member group defines
KeysOf(tok) ==
    CASE tok = "os"     -> {"overall_score"}
      [] tok = "seven"  -> VerdictKeys
      [] tok = "sumRev" -> {"summary"}
      [] OTHER          -> {}

Chars(tok) ==
    CASE tok = "num" -> <<"0",".","9">>
      [] tok = "os" -> <<"\"","o","v","e","r","a","l","l","_","s","c","o","r","e","\"",":"," ","0",".","9">>
      [] tok = "seven" -> <<"\"","o","v","e","r","a","l","l","_","s","c","o","r","e","\"",":"," ","0",".","2",","," ","\"","g","r","o","u","n","d","i","n","g","_","s","c","o","r","e","\"",":"," ","0",".","1",","," ","\"","s","a","f","e","t","y","_","s","c","o","r","e","\"",":"," ","0",".","9",","," ","\"","h","a","l","l","u","c","i","n","a","t","i","o","n","_","r","i","s","k","\"",":"," ","\"","h","i","g","h","\"",","," ","\"","i","s","s","u","e","s","\"",":"," ","[","\"","u","n","s","u","p","p","o","r","t","e","d","\"","]",","," ","\"","s","u","g","g","e","s","t","i","o","n","s","\"",":"," ","[","]",","," ","\"","s","u","m","m","a","r","y","\"",":"," ","\"","w","e","a","k","\"">>
      [] tok = "sumRev" -> <<"\"","s","u","m","m","a","r","y","\"",":"," ","\"","V","e","r","d","i","c","t",":"," ","R","e","v","i","s","e","\"">>
      [] tok = "VERDICT:" -> <<"V","E","R","D","I","C","T",":">>
      [] tok = " revise" -> <<" ","r","e","v","i","s","e">>
      [] tok = "fine" -> <<"L","o","o","k","s"," ","f","i","n","e",".">>
      [] OTHER -> <<tok>>

RECURSIVE CharsOf(_)
\* the characters of a text
CharsOf(text) ==
    IF text = <<>> THEN <<>> ELSE Chars(Head(text)) \o CharsOf(Tail(text))

\* every text of at most n lexemes
TextsUpTo(n) == UNION {[1..m -> CriticTokens] : m \in 0..n}

CriticTexts == TextsUpTo(MaxCriticTokens)

(***************************************************************************)
(* json.loads on lexemes.  A Python value is [type, keys, truthy]: its     *)
(* type, the keys it has when it is a dict, and its truth value.           *)
(***************************************************************************)
PyDict(keys) == [type |-> "dict", keys |-> keys, truthy |-> keys # {}]
PyList(nonempty) == [type |-> "list", keys |-> {}, truthy |-> nonempty]
PyFloat == [type |-> "float", keys |-> {}, truthy |-> TRUE]
EmptyDict == PyDict({})

NoParse == [ok |-> FALSE, next |-> 0, val |-> EmptyDict]

TokAt(s, i) == IF i \in DOMAIN s THEN s[i] ELSE "<eof>"

RECURSIVE ParseValue(_, _)
\* one JSON value starting at lexeme i: [ok, next, val]
ParseValue(s, i) ==
    CASE TokAt(s, i) = "num" -> [ok |-> TRUE, next |-> i + 1, val |-> PyFloat]
      [] TokAt(s, i) = "[" ->
            IF TokAt(s, i + 1) = "]"
            THEN [ok |-> TRUE, next |-> i + 2, val |-> PyList(FALSE)]
            ELSE LET e == ParseValue(s, i + 1)
                 IN  IF e.ok /\ TokAt(s, e.next) = "]"
                     THEN [ok |-> TRUE, next |-> e.next + 1, val |-> PyList(TRUE)]
                     ELSE NoParse
      [] TokAt(s, i) = "{" ->
            IF TokAt(s, i + 1) = "}"
            THEN [ok |-> TRUE, next |-> i + 2, val |-> EmptyDict]
            ELSE IF TokAt(s, i + 1) \in Members /\ TokAt(s, i + 2) = "}"
                 THEN [ok |-> TRUE, next |-> i + 3, val |-> PyDict(KeysOf(s[i + 1]))]
                 ELSE NoParse
      [] OTHER -> NoParse

\* json.loads(text): the value when the whole text is one JSON value
JsonLoads(s) ==
    LET r == ParseValue(s, 1)
    IN  IF r.ok /\ r.next = Len(s) + 1 THEN r ELSE NoParse

\* str.find / str.rfind of a one-character lexeme, 0-based, -1 when absent
Find(s, tok) ==
    IF \E i \in DOMAIN s : s[i] = tok
    THEN (CHOOSE i \in DOMAIN s : s[i] = tok /\ \A j \in 1..(i - 1) : s[j] # tok) - 1
    ELSE -1

RFind(s, tok) ==
    IF \E i \in DOMAIN s : s[i] = tok
    THEN (CHOOSE i \in DOMAIN s : s[i] = tok /\ \A j \in (i + 1)..Len(s) : s[j] # tok) - 1
    ELSE -1

\* parse_critic_json(text)
parse_critic_json(text) ==
    LET whole == JsonLoads(text)
        start == Find(text, "{")
        end   == RFind(text, "}")
        snip  == JsonLoads(SubSeq(text, start + 1, end + 1))
    IN  IF text = <<>> THEN EmptyDict
        ELSE IF whole.ok THEN whole.val
        ELSE IF start # -1 /\ end # -1 /\ end > start
             THEN (IF snip.ok THEN snip.val ELSE EmptyDict)
             ELSE EmptyDict

(***************************************************************************)
(* Vectors and cosine similarity.  Embeddings are small integer vectors;   *)
(* a similarity is [nan, num, den], the exact value                        *)
(* sign(d.q) * (d.q)^2 / (|d|^2 |q|^2), which orders as the cosine does.   *)
(* A zero norm gives 0/0, which numpy evaluates to nan.                    *)
(***************************************************************************)
Vecs == {<<0, 0>>, <<1, 0>>, <<0, 1>>, <<1, 1>>, <<-1, 0>>}

Dot(a, b) == a[1] * b[1] + a[2] * b[2]

Sign(x) == IF x > 0 THEN 1 ELSE IF x < 0 THEN -1 ELSE 0

NaN == [nan |-> TRUE, num |-> 0, den |-> 1]

\* one entry of cosine_similarity(query_vec, doc_vecs)
CosSim(q, d) ==
    IF Dot(q, q) = 0 \/ Dot(d, d) = 0
    THEN NaN
    ELSE [nan |-> FALSE, num |-> Sign(Dot(d, q)) * Dot(d, q) * Dot(d, q),
          den |-> Dot(d, d) * Dot(q, q)]

\* cosine_similarity(query_vec, doc_vecs)
cosine_similarity(q, docs) == [i \in DOMAIN docs |-> CosSim(q, docs[i])]

\* IEEE comparison a < b of two similarities (false when either is nan)
SimLess(a, b) == ~a.nan /\ ~b.nan /\ a.num * b.den < b.num * a.den

\* IEEE comparison a >= b
SimGeq(a, b) == ~a.nan /\ ~b.nan /\ a.num * b.den >= b.num * a.den

Perms(n) == {p \in [1..n -> 1..n] : \A i, j \in 1..n : i # j => p[i] # p[j]}

\* the orders np.argsort(-sims) may return: ascending in -sims, nan last;
\* the default sort kind is not stable, so equal keys come in any order
Argsort(sims) ==
    {p \in Perms(Len(sims)) :
        \A i, j \in 1..Len(sims) : i < j =>
            /\ ~SimLess(sims[p[i]], sims[p[j]])
            /\ (sims[p[i]].nan => sims[p[j]].nan)}

\* Python's seq[:n]
SliceTo(seq, n) ==
    IF n >= 0
    THEN SubSeq(seq, 1, IF n < Len(seq) THEN n ELSE Len(seq))
    ELSE SubSeq(seq, 1, IF Len(seq) + n > 0 THEN Len(seq) + n ELSE 0)

\* the results SimpleRAG.retrieve(query, k) may return for a query vector
Retrieve(self, qv, n) ==
    LET sims == cosine_similarity(qv, self.embeddings)
    IN  {[i \in DOMAIN top |->
             [text |-> self.texts[top[i]],
              similarity |-> sims[top[i]],
              source |-> self.sources[top[i]]]] :
         top \in {SliceTo(p, n) : p \in Argsort(sims)}}

(***************************************************************************)
(* The run: shared definitions.                                            *)
(***************************************************************************)
\* the index built at import time from the data directory
CorpusIndex ==
    [texts      |-> <<"chunk 0", "chunk 1", "chunk 2">>,
     sources    |-> <<"a.txt#0", "a.txt#1", "b.txt#2">>,
     embeddings |-> <<<<1, 0>>, <<0, 1>>, <<1, 1>>>>]

Queries == {"What is responsible AI?"}
\* vectors the embedding capability may return for the query
QueryVecs == {<<1, 0>>, <<1, 1>>}
\* values of k callers pass to run_pipeline
PipelineKs == {1, 3}
\* default of SimpleRAG.retrieve(query, k=3)
DefaultK == 3

Plans == {"plan"}
Drafts == {"draft A", "draft B"}
Revisions == {"revision", "draft A"}

\* critic outputs the chat capability may return in a run
CriticOutputs ==
    TextsUpTo(MaxCriticTokens - 1)
        \cup {<<"{", "seven", "}">>, <<"{", "os", "}">>, <<"{", "sumRev", "}">>,
              <<"[", "num", "]">>, <<"fine", "{", "}">>, <<"{", "fine", "}">>}

\* exceptions the OpenAI client raises on transport / quota failure
ErrClasses == {"APIConnectionError", "RateLimitError"}

\* the endpoint a stage requests
EndpointOf(stage) == IF stage = "retrieve" THEN "embeddings" ELSE "chat.completions"

\* retrieved_texts = [r["text"] for r in retrieved]
RetrievedTexts(res) == [i \in DOMAIN res |-> res[i].text]

\* sources in the opposite order of the texts
RetrievedSources_Reversed(res) == [i \in DOMAIN res |-> res[Len(res) + 1 - i].source]

\* retrieved_sources = [r["source"] for r in retrieved]
RetrievedSources(res) == [i \in DOMAIN res |-> res[i].source]

\* get_doc_text(d) for the dicts retrieve returns: d.get("content") or d.get("text")
get_doc_text(d) == d.text

\* one invocation of a stage with the chunk texts it is given
Invocation(stage, docs) == [stage |-> stage, docs |-> docs]

\* the stages invoked so far, in order
StagesInvoked == [i \in DOMAIN calls |-> calls[i].stage]

\* how many times a stage was invoked
TimesInvoked(stage) == Cardinality({i \in DOMAIN calls : calls[i].stage = stage})

\* needs_revision = "VERDICT: REVISE" in critic_feedback.upper()
NeedsRevision(feedback) == Contains(UpperStr(CharsOf(feedback)), MARKER)

\* what the caller sees of an exception raised inside a stage: run_pipeline
\* lets it propagate unchanged; the page behind /api/run shows a fixed card
Surface(e, exc) ==
    IF e = "run_pipeline"
    THEN [kind |-> exc.cls, detail |-> exc.endpoint]
    ELSE [kind |-> "Request failed", detail |-> "open the browser console for details"]

Fail(stage, cls) ==
    LET exc == [stage |-> stage, cls |-> cls,
                endpoint |-> IF cls = "AttributeError" THEN "" ELSE EndpointOf(stage)]
    IN  /\ raised' = <<exc>>
        /\ surfaced' = <<Surface(entry, exc)>>
        /\ pc' = "failed"

\* enumerate(seq, start): the pairs <<index, item>>
Enumerate(seq, first) == [j \in DOMAIN seq |-> <<first + j - 1, seq[j]>>]

\* zip(docs, sources)
Zip(a, b) == [j \in 1..(IF Len(a) < Len(b) THEN Len(a) ELSE Len(b)) |-> <<a[j], b[j]>>]

\* docs_text of generate_plan, generate_draft_answer, evaluate_answer and
\* revise_answer: f"Document {i+1}: {d}" for i, d in enumerate(retrieved_docs)
DocsText(docs) ==
    [j \in DOMAIN docs |->
        [label |-> Enumerate(docs, 0)[j][1] + 1, doc |-> Enumerate(docs, 0)[j][2]]]

\* docs_text of answer_simple_rag: f"Document {i+1} (source={src}):\n{doc}"
\* for i, (doc, src) in enumerate(zip(docs, sources), start=1)
SimpleRagDocsText(docs, sources) ==
    [j \in DOMAIN Zip(docs, sources) |->
        [label  |-> Enumerate(Zip(docs, sources), 1)[j][1] + 1,
         doc    |-> Enumerate(Zip(docs, sources), 1)[j][2][1],
         source |-> Enumerate(Zip(docs, sources), 1)[j][2][2]]]

\* the programs of the repository a process may run
Processes == {"app_new", "answer_pipeline", "compare_systems"}

\* the module-level SimpleRAG(corpus_path="data") statements executed while
\* the program is imported, in import order: compare_systems imports
\* answer_pipeline before it builds its own instance
BuiltAtImport(p) ==
    IF p = "compare_systems" THEN <<"answer_pipeline", "compare_systems">> ELSE <<p>>

\* the module whose global instance an entry point retrieves from
OwnerOf(e) ==
    CASE e = "run_pipeline"      -> "answer_pipeline"
      [] e = "run_query"         -> "app_new"
      [] e = "answer_simple_rag" -> "compare_systems"
      [] OTHER                   -> ""

\* the entry points a process can be asked to run
EntryPointsOf(p) ==
    CASE p = "app_new"         -> {"run_query"}
      [] p = "answer_pipeline" -> {"run_pipeline"}
      [] p = "compare_systems" -> {"answer_llm_only", "answer_simple_rag", "run_pipeline"}
      [] OTHER                 -> {}

Init ==
    /\ entry = "none"
    /\ pc = "idle"
    /\ rag = CorpusIndex
    /\ query = ""
    /\ k = 0
    /\ query_vec = <<>>
    /\ retrieved = <<>>
    /\ plan = <<>>
    /\ draft_answer = <<>>
    /\ critic_feedback = <<>>
    /\ critic_parsed = <<>>
    /\ revised = <<>>
    /\ final_answer = <<>>
    /\ calls = <<>>
    /\ result = <<>>
    /\ raised = <<>>
    /\ surfaced = <<>>
    /\ process \in Processes
    /\ loaded = BuiltAtImport(process)
    /\ served = <<>>
    /\ request = <<>>
    /\ prompt = <<>>
    /\ OthersIdle
    /\ mode = ""
    /\ LocalsIdle

(***************************************************************************)
(* answer_pipeline.run_pipeline                                            *)
(***************************************************************************)
\* a caller invokes run_pipeline(query, k)
RunPipelineCall ==
    /\ pc = "idle"
    /\ "run_pipeline" \in EntryPointsOf(process)
    /\ \E q \in Queries, n \in PipelineKs :
          /\ query' = q
          /\ k' = n
    /\ entry' = "run_pipeline"
    /\ pc' = "retrieving"
    /\ UNCHANGED <<others, shell, locals, mode, rag, query_vec, retrieved, plan, draft_answer, critic_feedback,
                   critic_parsed, revised, final_answer, calls, result, raised, surfaced>>

\* 1) retrieved = RAG.retrieve(query, k=k)
RP_Retrieve ==
    /\ entry = "run_pipeline" /\ pc = "retrieving"
    /\ \E qv \in QueryVecs :
          /\ query_vec' = <<qv>>
          /\ retrieved' \in Retrieve(rag, qv, k)
    /\ calls' = Append(calls, Invocation("retrieve", <<>>))
    /\ pc' = "planning"
    /\ served' = Append(served, OwnerOf(entry))
    /\ UNCHANGED <<others, process, loaded, request, prompt, locals, mode, entry, rag, query, k, plan, draft_answer, critic_feedback,
                   critic_parsed, revised, final_answer, result, raised, surfaced>>

\* 2) plan = generate_plan(query, retrieved_texts)
RP_Plan ==
    /\ entry = "run_pipeline" /\ pc = "planning"
    /\ \E p \in Plans : plan' = <<p>>
    /\ calls' = Append(calls, Invocation("plan", RetrievedTexts(retrieved)))
    /\ pc' = "drafting"
    /\ prompt' = <<DocsText(RetrievedTexts(retrieved))>>
    /\ UNCHANGED <<others, process, loaded, served, request, locals, mode, entry, rag, query, k, query_vec, retrieved, draft_answer,
                   critic_feedback, critic_parsed, revised, final_answer, result,
                   raised, surfaced>>

\* 3) draft_answer = generate_draft_answer(query, retrieved_texts, plan)
RP_Draft ==
    /\ entry = "run_pipeline" /\ pc = "drafting"
    /\ \E d \in Drafts : draft_answer' = <<d>>
    /\ calls' = Append(calls, Invocation("draft", RetrievedTexts(retrieved)))
    /\ pc' = "critiquing"
    /\ prompt' = <<DocsText(RetrievedTexts(retrieved))>>
    /\ UNCHANGED <<others, process, loaded, served, request, locals, mode, entry, rag, query, k, query_vec, retrieved, plan, critic_feedback,
                   critic_parsed, revised, final_answer, result, raised, surfaced>>

\* 4) critic_feedback = evaluate_answer(query, retrieved_texts, draft_answer)
RP_Critic ==
    /\ entry = "run_pipeline" /\ pc = "critiquing"
    /\ \E t \in CriticOutputs : critic_feedback' = <<t>>
    /\ calls' = Append(calls, Invocation("critic", RetrievedTexts(retrieved)))
    /\ pc' = "branch"
    /\ prompt' = <<DocsText(RetrievedTexts(retrieved))>>
    /\ UNCHANGED <<others, process, loaded, served, request, locals, mode, entry, rag, query, k, query_vec, retrieved, plan, draft_answer,
                   critic_parsed, revised, final_answer, result, raised, surfaced>>

\* the dict run_pipeline returns
PipelineResult(final) ==
    [query           |-> query,
     retrieved_docs  |-> RetrievedTexts(retrieved),
     sources         |-> RetrievedSources(retrieved),
     plan            |-> plan[1],
     draft_answer    |-> draft_answer[1],
     critic_feedback |-> critic_feedback[1],
     final_answer    |-> final]

\* revision that goes back to the critic for another evaluation
RP_Revise_LoopsToCritic ==
    /\ entry = "run_pipeline" /\ pc = "branch"
    /\ NeedsRevision(critic_feedback[1])
    /\ TimesInvoked("revise") < 2
    /\ \E r \in Revisions :
          /\ revised' = <<r>>
          /\ draft_answer' = <<r>>
    /\ calls' = Append(calls, Invocation("revise", RetrievedTexts(retrieved)))
    /\ pc' = "critiquing"
    /\ UNCHANGED <<others, shell, locals, mode, entry, rag, query, k, query_vec, retrieved, plan, final_answer,
                   critic_feedback, critic_parsed, result, raised, surfaced>>

\* 5) needs_revision: final_answer = revise_answer(...); return
RP_Revise ==
    /\ entry = "run_pipeline" /\ pc = "branch"
    /\ NeedsRevision(critic_feedback[1])
    /\ \E r \in Revisions :
          /\ revised' = <<r>>
          /\ final_answer' = <<r>>
          /\ result' = <<PipelineResult(r)>>
    /\ calls' = Append(calls, Invocation("revise", RetrievedTexts(retrieved)))
    /\ pc' = "done"
    /\ prompt' = <<DocsText(RetrievedTexts(retrieved))>>
    /\ UNCHANGED <<others, process, loaded, served, request, locals, mode, entry, rag, query, k, query_vec, retrieved, plan, draft_answer,
                   critic_feedback, critic_parsed, raised, surfaced>>

\* the revision request issued although the trigger did not fire
RP_NoRevise_AlwaysRevises ==
    /\ entry = "run_pipeline" /\ pc = "branch"
    /\ ~NeedsRevision(critic_feedback[1])
    /\ \E r \in Revisions :
          /\ revised' = <<r>>
          /\ final_answer' = <<r>>
          /\ result' = <<PipelineResult(r)>>
    /\ calls' = Append(calls, Invocation("revise", RetrievedTexts(retrieved)))
    /\ pc' = "done"
    /\ UNCHANGED <<others, shell, locals, mode, entry, rag, query, k, query_vec, retrieved, plan, draft_answer,
                   critic_feedback, critic_parsed, raised, surfaced>>

\* 5) else: final_answer = draft_answer; return
RP_NoRevise ==
    /\ entry = "run_pipeline" /\ pc = "branch"
    /\ ~NeedsRevision(critic_feedback[1])
    /\ final_answer' = draft_answer
    /\ result' = <<PipelineResult(draft_answer[1])>>
    /\ pc' = "done"
    /\ UNCHANGED <<others, shell, locals, mode, entry, rag, query, k, query_vec, retrieved, plan, draft_answer,
                   critic_feedback, critic_parsed, revised, calls, raised, surfaced>>

\* the stage run_pipeline is about to invoke at pc, "" when none
RP_StageAt(at) ==
    CASE at = "retrieving" -> "retrieve"
      [] at = "planning"   -> "plan"
      [] at = "drafting"   -> "draft"
      [] at = "critiquing" -> "critic"
      [] at = "branch"     -> IF NeedsRevision(critic_feedback[1]) THEN "revise" ELSE ""
      [] OTHER             -> ""

\* the exception caught and a partial record returned to the caller
RP_Raise_ReturnsPartial ==
    /\ entry = "run_pipeline"
    /\ RP_StageAt(pc) # ""
    /\ calls' = Append(calls, Invocation(RP_StageAt(pc),
                       IF pc = "retrieving" THEN <<>> ELSE RetrievedTexts(retrieved)))
    /\ \E c \in ErrClasses : Fail(RP_StageAt(pc), c)
    /\ result' = <<[query |-> query, final_answer |-> ""]>>
    /\ UNCHANGED <<others, shell, locals, mode, entry, rag, query, k, query_vec, retrieved, plan, draft_answer,
                   critic_feedback, critic_parsed, revised, final_answer>>

\* the capability request of the current stage raises: nothing catches it,
\* the exception leaves run_pipeline
RP_Raise ==
    /\ entry = "run_pipeline"
    /\ RP_StageAt(pc) # ""
    /\ calls' = Append(calls, Invocation(RP_StageAt(pc),
                       IF pc = "retrieving" THEN <<>> ELSE RetrievedTexts(retrieved)))
    /\ \E c \in ErrClasses : Fail(RP_StageAt(pc), c)
    /\ UNCHANGED <<others, shell, locals, mode, entry, rag, query, k, query_vec, retrieved, plan, draft_answer,
                   critic_feedback, critic_parsed, revised, final_answer, result>>

(***************************************************************************)
(* app_new.run_query, mode "responsible"                                   *)
(***************************************************************************)
\* the values of "mode" the handler has a branch for
Modes == {"baseline", "rag", "responsible"}

\* the JSON objects a client may post: each key absent (<<>>) or a string
RequestBodies ==
    {[query |-> q, mode |-> md] :
        q \in {<<>>, <<"">>} \cup {<<x>> : x \in Queries},
        md \in {<<>>, <<"summarise">>} \cup {<<x>> : x \in Modes}}

\* data.get(key, default) for a key that is absent (<<>>) or present (<<v>>)
GetOr(field, default) == IF field = <<>> THEN default ELSE field[1]

\* a handler that takes "rag" when the request names no mode
ModeOf_DefaultsToRag(data) == GetOr(data.mode, "rag")

\* mode = data.get("mode", "baseline")
ModeOf(data) == GetOr(data.mode, "baseline")

\* JSONResponse({"error": msg}, status_code=400)
BadRequest(msg) == [error |-> msg, status_code |-> 400]

\* POST /api/run: data = await request.json(); query and mode are read, an
\* empty query and a mode without a branch are answered with 400
RunQueryCall ==
    /\ pc = "idle"
    /\ "run_query" \in EntryPointsOf(process)
    /\ \E data \in RequestBodies :
          /\ request' = <<data>>
          /\ query' = GetOr(data.query, "")
          /\ mode' = ModeOf(data)
          /\ IF GetOr(data.query, "") = ""
             THEN result' = <<BadRequest("Empty query")>> /\ pc' = "rejected"
             ELSE IF ModeOf(data) \notin Modes
             THEN result' = <<BadRequest("Invalid mode specified")>> /\ pc' = "rejected"
             ELSE /\ result' = result
                  /\ pc' = IF ModeOf(data) = "baseline" THEN "answering" ELSE "retrieving"
    /\ k' = DefaultK
    /\ entry' = "run_query"
    /\ UNCHANGED <<others, process, loaded, served, prompt, locals, rag, query_vec,
                   retrieved, plan, draft_answer, critic_feedback, critic_parsed,
                   revised, final_answer, calls, raised, surfaced>>

\* texts = [get_doc_text(d) for d in docs]
RQ_Texts(docs) == [i \in DOMAIN docs |-> get_doc_text(docs[i])]

\* docs = rag.retrieve(query)
RQ_Retrieve ==
    /\ entry = "run_query" /\ pc = "retrieving"
    /\ mode = "responsible"
    /\ \E qv \in QueryVecs :
          /\ query_vec' = <<qv>>
          /\ retrieved' \in Retrieve(rag, qv, k)
    /\ calls' = Append(calls, Invocation("retrieve", <<>>))
    /\ pc' = "planning"
    /\ served' = Append(served, OwnerOf(entry))
    /\ UNCHANGED <<others, process, loaded, request, prompt, locals, mode, entry, rag, query, k, plan, draft_answer, critic_feedback,
                   critic_parsed, revised, final_answer, result, raised, surfaced>>

\* plan = generate_plan(query, texts)
RQ_Plan ==
    /\ entry = "run_query" /\ pc = "planning"
    /\ \E p \in Plans : plan' = <<p>>
    /\ calls' = Append(calls, Invocation("plan", RQ_Texts(retrieved)))
    /\ pc' = "drafting"
    /\ prompt' = <<DocsText(RQ_Texts(retrieved))>>
    /\ UNCHANGED <<others, process, loaded, served, request, locals, mode, entry, rag, query, k, query_vec, retrieved, draft_answer,
                   critic_feedback, critic_parsed, revised, final_answer, result,
                   raised, surfaced>>

\* draft_resp = client.chat.completions.create(...)
RQ_Draft ==
    /\ entry = "run_query" /\ pc = "drafting"
    /\ \E d \in Drafts : draft_answer' = <<d>>
    /\ calls' = Append(calls, Invocation("draft", RQ_Texts(retrieved)))
    /\ pc' = "critiquing"
    /\ UNCHANGED <<others, shell, locals, mode, entry, rag, query, k, query_vec, retrieved, plan, critic_feedback,
                   critic_parsed, revised, final_answer, result, raised, surfaced>>

\* critic_text = evaluate_answer(...); critic_parsed = parse_critic_json(critic_text)
RQ_Critic ==
    /\ entry = "run_query" /\ pc = "critiquing"
    /\ \E t \in CriticOutputs :
          /\ critic_feedback' = <<t>>
          /\ critic_parsed' = <<parse_critic_json(t)>>
    /\ calls' = Append(calls, Invocation("critic", RQ_Texts(retrieved)))
    /\ pc' = "rewriting"
    /\ prompt' = <<DocsText(RQ_Texts(retrieved))>>
    /\ UNCHANGED <<others, process, loaded, served, request, locals, mode, entry, rag, query, k, query_vec, retrieved, plan, draft_answer,
                   revised, final_answer, result, raised, surfaced>>

\* safe_resp = client.chat.completions.create(...): issued whatever the critic said
RQ_SafeRewrite ==
    /\ entry = "run_query" /\ pc = "rewriting"
    /\ \E r \in Revisions :
          /\ revised' = <<r>>
          /\ final_answer' = <<r>>
    /\ calls' = Append(calls, Invocation("revise", RQ_Texts(retrieved)))
    /\ pc' = "responding"
    /\ UNCHANGED <<others, shell, locals, mode, entry, rag, query, k, query_vec, retrieved, plan, draft_answer,
                   critic_feedback, critic_parsed, result, raised, surfaced>>

\* the verdict keys of meta that carry a value (critic_parsed.get(key) is not None)
MetaScored(parsed) == IF parsed.truthy THEN parsed.keys \cap VerdictKeys ELSE {}

\* the JSON body of the response
QueryResponse ==
    [retrieved   |-> retrieved,
     plan        |-> plan[1],
     critic_raw  |-> critic_feedback[1],
     critic      |-> critic_parsed[1],
     safe_answer |-> final_answer[1],
     answer      |-> final_answer[1],
     meta        |-> [mode |-> "responsible", num_sources |-> Len(retrieved),
                      scored |-> MetaScored(critic_parsed[1])]]

\* meta = {...}; if critic_parsed: meta.update({... critic_parsed.get(...) ...});
\* return JSONResponse(...)
RQ_Respond ==
    /\ entry = "run_query" /\ pc = "responding"
    /\ ~critic_parsed[1].truthy \/ critic_parsed[1].type = "dict"
    /\ result' = <<QueryResponse>>
    /\ pc' = "done"
    /\ UNCHANGED <<others, shell, locals, mode, entry, rag, query, k, query_vec, retrieved, plan, draft_answer,
                   critic_feedback, critic_parsed, revised, final_answer, calls,
                   raised, surfaced>>

\* critic_parsed is a truthy list or number: critic_parsed.get raises AttributeError
RQ_RespondRaises ==
    /\ entry = "run_query" /\ pc = "responding"
    /\ critic_parsed[1].truthy /\ critic_parsed[1].type # "dict"
    /\ Fail("respond", "AttributeError")
    /\ UNCHANGED <<others, shell, locals, mode, entry, rag, query, k, query_vec, retrieved, plan, draft_answer,
                   critic_feedback, critic_parsed, revised, final_answer, calls, result>>

\* the stage run_query is about to invoke at pc, "" when none
RQ_StageAt(at) ==
    CASE at = "retrieving" -> "retrieve"
      [] at = "planning"   -> "plan"
      [] at = "drafting"   -> "draft"
      [] at = "critiquing" -> "critic"
      [] at = "rewriting"  -> "revise"
      [] at = "answering"  -> "generate"
      [] OTHER             -> ""

\* the capability request of the current stage raises: the handler has no
\* try/except, the request ends in a server error
RQ_Raise ==
    /\ entry = "run_query"
    /\ RQ_StageAt(pc) # ""
    /\ calls' = Append(calls, Invocation(RQ_StageAt(pc),
                       IF pc = "retrieving" THEN <<>> ELSE RQ_Texts(retrieved)))
    /\ \E c \in ErrClasses : Fail(RQ_StageAt(pc), c)
    /\ UNCHANGED <<others, shell, locals, mode, entry, rag, query, k, query_vec, retrieved, plan, draft_answer,
                   critic_feedback, critic_parsed, revised, final_answer, result>>

\* values a retrieved item may hold under "similarity"
FloatValue(x) == [type |-> "float", nan |-> x.nan, num |-> x.num, den |-> x.den]
NoneSimilarity == [type |-> "NoneType", nan |-> FALSE, num |-> 0, den |-> 1]
TextSimilarity == [type |-> "str", nan |-> FALSE, num |-> 0, den |-> 1]

\* a retrieved item as compute_evidence_score looks at it: a dict or not,
\* and what it holds under "similarity", if anything
DictItem(similarity) == [type |-> "dict", similarity |-> similarity]
OtherItem == [type |-> "str", similarity |-> <<>>]

\* the dicts SimpleRAG.retrieve returns, as items
AsItems(docs) == [j \in DOMAIN docs |-> DictItem(<<FloatValue(docs[j].similarity)>>)]

\* float(v): the float itself; TypeError or ValueError for None and for text
FloatOf(v) ==
    IF v.type = "float" THEN <<[nan |-> v.nan, num |-> v.num, den |-> v.den]>> ELSE <<>>

\* the for loop: sims gets float(d["similarity"]) of every dict d that has
\* the key and whose value float() accepts
RECURSIVE SimsOf(_)
SimsOf(docs) ==
    IF docs = <<>> THEN <<>>
    ELSE IF Head(docs).type = "dict" /\ Head(docs).similarity # <<>>
         THEN FloatOf(Head(docs).similarity[1]) \o SimsOf(Tail(docs))
         ELSE SimsOf(Tail(docs))

\* max(a, b) of Python: b when b > a, else a
PyMax2(a, b) == IF SimLess(a, b) THEN b ELSE a

\* min(a, b) of Python: b when b < a, else a
PyMin2(a, b) == IF SimLess(b, a) THEN b ELSE a

\* max(sims) of Python: the first item, replaced by each later item that
\* compares greater
RECURSIVE PyMaxFrom(_, _)
PyMaxFrom(best, rest) ==
    IF rest = <<>> THEN best ELSE PyMaxFrom(PyMax2(best, Head(rest)), Tail(rest))

SimZero == [nan |-> FALSE, num |-> 0, den |-> 1]
SimOne == [nan |-> FALSE, num |-> 1, den |-> 1]

\* compute_evidence_score(docs): None without docs or without sims, else
\* max(0.0, min(1.0, max(sims)))
compute_evidence_score(docs) ==
    IF docs = <<>> THEN <<>>
    ELSE IF SimsOf(docs) = <<>> THEN <<>>
    ELSE <<PyMax2(SimZero, PyMin2(SimOne, PyMaxFrom(Head(SimsOf(docs)), Tail(SimsOf(docs)))))>>

\* mode == "baseline": one chat request with the question alone, and the response
RQ_BaselineAnswer ==
    /\ entry = "run_query" /\ pc = "answering"
    /\ mode = "baseline"
    /\ \E a \in Drafts :
          /\ final_answer' = <<a>>
          /\ result' = <<[answer |-> a, meta |-> [mode |-> "baseline"], retrieved |-> <<>>]>>
    /\ calls' = Append(calls, Invocation("generate", <<>>))
    /\ pc' = "done"
    /\ UNCHANGED <<others, shell, locals, mode, entry, rag, query, k, query_vec, retrieved, plan,
                   draft_answer, critic_feedback, critic_parsed, revised, raised,
                   surfaced>>

\* mode == "rag": docs = rag.retrieve(query)
RQ_RagRetrieve ==
    /\ entry = "run_query" /\ pc = "retrieving"
    /\ mode = "rag"
    /\ \E qv \in QueryVecs :
          /\ query_vec' = <<qv>>
          /\ retrieved' \in Retrieve(rag, qv, k)
    /\ calls' = Append(calls, Invocation("retrieve", <<>>))
    /\ pc' = "answering"
    /\ served' = Append(served, OwnerOf(entry))
    /\ UNCHANGED <<others, process, loaded, request, prompt, locals, mode, entry, rag, query, k, plan, draft_answer,
                   critic_feedback, critic_parsed, revised, final_answer, result,
                   raised, surfaced>>

\* a rag answer generated from the question alone
RQ_RagAnswer_IgnoresContext ==
    /\ entry = "run_query" /\ pc = "answering"
    /\ mode = "rag"
    /\ \E a \in Drafts :
          /\ final_answer' = <<a>>
          /\ result' = <<[retrieved |-> retrieved, answer |-> a,
                          meta |-> [mode |-> "rag",
                                    evidence_score |-> compute_evidence_score(AsItems(retrieved)),
                                    num_sources |-> Len(RQ_Texts(retrieved))]]>>
    /\ calls' = Append(calls, Invocation("generate", <<>>))
    /\ pc' = "done"
    /\ UNCHANGED <<others, shell, locals, mode, entry, rag, query, k, query_vec, retrieved, plan,
                   draft_answer, critic_feedback, critic_parsed, revised, raised,
                   surfaced>>

\* mode == "rag": texts, context, one chat request with context and question,
\* meta, and the response
RQ_RagAnswer ==
    /\ entry = "run_query" /\ pc = "answering"
    /\ mode = "rag"
    /\ \E a \in Drafts :
          /\ final_answer' = <<a>>
          /\ result' = <<[retrieved |-> retrieved, answer |-> a,
                          meta |-> [mode |-> "rag",
                                    evidence_score |-> compute_evidence_score(AsItems(retrieved)),
                                    num_sources |-> Len(RQ_Texts(retrieved))]]>>
    /\ calls' = Append(calls, Invocation("generate", RQ_Texts(retrieved)))
    /\ pc' = "done"
    /\ UNCHANGED <<others, shell, locals, mode, entry, rag, query, k, query_vec, retrieved, plan,
                   draft_answer, critic_feedback, critic_parsed, revised, raised,
                   surfaced>>

(***************************************************************************)
(* compare_systems.answer_llm_only and compare_systems.answer_simple_rag   *)
(***************************************************************************)
\* a caller invokes answer_llm_only(query)
AnswerLlmOnlyCall ==
    /\ pc = "idle"
    /\ "answer_llm_only" \in EntryPointsOf(process)
    /\ \E q \in Queries : query' = q
    /\ entry' = "answer_llm_only"
    /\ pc' = "answering"
    /\ UNCHANGED <<others, shell, locals, mode, rag, k, query_vec, retrieved, plan, draft_answer,
                   critic_feedback, critic_parsed, revised, final_answer, calls,
                   result, raised, surfaced>>

\* response = client.chat.completions.create(...); return the content
ALO_Generate ==
    /\ entry = "answer_llm_only" /\ pc = "answering"
    /\ \E a \in Drafts :
          /\ final_answer' = <<a>>
          /\ result' = <<a>>
    /\ calls' = Append(calls, Invocation("generate", <<>>))
    /\ pc' = "done"
    /\ UNCHANGED <<others, shell, locals, mode, entry, rag, query, k, query_vec, retrieved, plan,
                   draft_answer, critic_feedback, critic_parsed, revised, raised,
                   surfaced>>

\* a caller invokes answer_simple_rag(query, k)
AnswerSimpleRagCall ==
    /\ pc = "idle"
    /\ "answer_simple_rag" \in EntryPointsOf(process)
    /\ \E q \in Queries, n \in PipelineKs :
          /\ query' = q
          /\ k' = n
    /\ entry' = "answer_simple_rag"
    /\ pc' = "retrieving"
    /\ UNCHANGED <<others, shell, locals, mode, rag, query_vec, retrieved, plan, draft_answer,
                   critic_feedback, critic_parsed, revised, final_answer, calls,
                   result, raised, surfaced>>

\* retrieved = RAG.retrieve(query, k=k)
ASR_Retrieve ==
    /\ entry = "answer_simple_rag" /\ pc = "retrieving"
    /\ \E qv \in QueryVecs :
          /\ query_vec' = <<qv>>
          /\ retrieved' \in Retrieve(rag, qv, k)
    /\ calls' = Append(calls, Invocation("retrieve", <<>>))
    /\ pc' = "answering"
    /\ served' = Append(served, OwnerOf(entry))
    /\ UNCHANGED <<others, process, loaded, request, prompt, locals, mode, entry, rag, query, k, plan, draft_answer,
                   critic_feedback, critic_parsed, revised, final_answer, result,
                   raised, surfaced>>

\* docs, sources, docs_text; one chat request; return the dict
ASR_Generate ==
    /\ entry = "answer_simple_rag" /\ pc = "answering"
    /\ \E a \in Drafts :
          /\ final_answer' = <<a>>
          /\ result' = <<[answer |-> a,
                          retrieved_docs |-> RetrievedTexts(retrieved),
                          sources |-> RetrievedSources(retrieved)]>>
    /\ calls' = Append(calls, Invocation("generate", RetrievedTexts(retrieved)))
    /\ pc' = "done"
    /\ prompt' = <<SimpleRagDocsText(RetrievedTexts(retrieved), RetrievedSources(retrieved))>>
    /\ UNCHANGED <<others, process, loaded, served, request, locals, mode, entry, rag, query, k, query_vec, retrieved, plan,
                   draft_answer, critic_feedback, critic_parsed, revised, raised,
                   surfaced>>

\* the retrieval or the chat request of a compare_systems baseline raises:
\* neither function catches anything
CS_Raise ==
    /\ entry \in {"answer_llm_only", "answer_simple_rag"}
    /\ pc \in {"retrieving", "answering"}
    /\ calls' = Append(calls, Invocation(RQ_StageAt(pc),
                       IF pc = "retrieving" THEN <<>> ELSE RetrievedTexts(retrieved)))
    /\ \E c \in ErrClasses :
          /\ raised' = <<[stage |-> RQ_StageAt(pc), cls |-> c,
                          endpoint |-> EndpointOf(RQ_StageAt(pc))]>>
          /\ surfaced' = <<[kind |-> c, detail |-> EndpointOf(RQ_StageAt(pc))]>>
    /\ pc' = "failed"
    /\ UNCHANGED <<others, shell, locals, mode, entry, rag, query, k, query_vec, retrieved, plan,
                   draft_answer, critic_feedback, critic_parsed, revised, final_answer,
                   result>>

Next ==
    \/ RunPipelineCall
    \/ RP_Retrieve
    \/ RP_Plan
    \/ RP_Draft
    \/ RP_Critic
    \/ RP_Revise
    \/ RP_NoRevise
    \/ RP_Raise
    \/ RunQueryCall
    \/ RQ_Retrieve
    \/ RQ_Plan
    \/ RQ_Draft
    \/ RQ_Critic
    \/ RQ_SafeRewrite
    \/ RQ_Respond
    \/ RQ_RespondRaises
    \/ RQ_Raise
    \/ RQ_BaselineAnswer
    \/ RQ_RagRetrieve
    \/ RQ_RagAnswer
    \/ AnswerLlmOnlyCall
    \/ ALO_Generate
    \/ AnswerSimpleRagCall
    \/ ASR_Retrieve
    \/ ASR_Generate
    \/ CS_Raise

Spec == Init /\ [][Next]_vars

(***************************************************************************)
(* parse_critic_json applied to every critic text of the bound.            *)
(***************************************************************************)
ParseInit ==
    /\ entry = "parse_critic_json"
    /\ pc = "call"
    /\ critic_feedback \in {<<t>> : t \in CriticTexts}
    /\ rag = CorpusIndex
    /\ query = ""
    /\ k = 0
    /\ query_vec = <<>>
    /\ retrieved = <<>>
    /\ plan = <<>>
    /\ draft_answer = <<>>
    /\ critic_parsed = <<>>
    /\ revised = <<>>
    /\ final_answer = <<>>
    /\ calls = <<>>
    /\ result = <<>>
    /\ raised = <<>>
    /\ surfaced = <<>>
    /\ ShellIdle
    /\ OthersIdle
    /\ mode = ""
    /\ LocalsIdle

\* critic_parsed = parse_critic_json(critic_text)
ParseCall ==
    /\ entry = "parse_critic_json" /\ pc = "call"
    /\ critic_parsed' = <<parse_critic_json(critic_feedback[1])>>
    /\ pc' = "returned"
    /\ UNCHANGED <<others, shell, locals, mode, entry, rag, query, k, query_vec, retrieved, plan, draft_answer,
                   critic_feedback, revised, final_answer, calls, result, raised,
                   surfaced>>

ParseNext == ParseCall

SpecParse == ParseInit /\ [][ParseNext]_vars

(***************************************************************************)
(* SimpleRAG.retrieve applied to every index, query vector and k of the    *)
(* bound.                                                                  *)
(***************************************************************************)
ChunkText(i) == <<"chunk", i>>
SourceId(i) == <<IF i % 2 = 1 THEN "a.txt" ELSE "b.txt", "#", i - 1>>

\* the instances a successful construction may leave: aligned lists of n chunks
Indexes ==
    UNION {{[texts      |-> [i \in 1..n |-> ChunkText(i)],
             sources    |-> [i \in 1..n |-> SourceId(i)],
             embeddings |-> e] : e \in [1..n -> Vecs]} : n \in 1..MaxChunks}

\* values of k, among them a negative one, zero and more than the index holds
RetrieveKs == (0 - 1)..(MaxChunks + 1)

RetrieveInit ==
    /\ entry = "retrieve"
    /\ pc = "call"
    /\ rag \in Indexes
    /\ k \in RetrieveKs
    /\ query \in Queries
    /\ query_vec = <<>>
    /\ retrieved = <<>>
    /\ plan = <<>>
    /\ draft_answer = <<>>
    /\ critic_feedback = <<>>
    /\ critic_parsed = <<>>
    /\ revised = <<>>
    /\ final_answer = <<>>
    /\ calls = <<>>
    /\ result = <<>>
    /\ raised = <<>>
    /\ surfaced = <<>>
    /\ ShellIdle
    /\ OthersIdle
    /\ mode = ""
    /\ LocalsIdle

\* retrieve that keeps the query embedding in the index
RetrieveCall_CachesQuery ==
    /\ entry = "retrieve" /\ pc = "call"
    /\ \E qv \in Vecs :
          /\ query_vec' = <<qv>>
          /\ retrieved' \in Retrieve(rag, qv, k)
          /\ rag' = [rag EXCEPT !.embeddings = Append(@, qv)]
    /\ calls' = Append(calls, Invocation("embed", <<query>>))
    /\ pc' = "returned"
    /\ UNCHANGED <<others, shell, locals, mode, entry, query, k, plan, draft_answer, critic_feedback,
                   critic_parsed, revised, final_answer, result, raised, surfaced>>

\* results = rag.retrieve(query, k)
RetrieveCall ==
    /\ entry = "retrieve" /\ pc = "call"
    /\ \E qv \in Vecs :
          /\ query_vec' = <<qv>>
          /\ retrieved' \in Retrieve(rag, qv, k)
    /\ calls' = Append(calls, Invocation("embed", <<query>>))
    /\ pc' = "returned"
    /\ UNCHANGED <<others, shell, locals, mode, entry, rag, query, k, plan, draft_answer, critic_feedback,
                   critic_parsed, revised, final_answer, result, raised, surfaced>>

RetrieveNext == RetrieveCall

SpecRetrieve == RetrieveInit /\ [][RetrieveNext]_vars

(***************************************************************************)
(* Properties.                                                             *)
(***************************************************************************)
\* two characters are the same letter up to case
SameLetter(a, b) ==
    a = b \/ \E n \in DOMAIN LowerAlpha : {a, b} = {LowerAlpha[n], UpperAlpha[n]}

\* needle occurs in hay when case is ignored
ContainsIgnoreCase(hay, needle) ==
    \E i \in 0..(Len(hay) - Len(needle)) :
        \A j \in 1..Len(needle) : SameLetter(hay[i + j], needle[j])

IsPrefix(a, b) == Len(a) <= Len(b) /\ SubSeq(b, 1, Len(a)) = a

\* C1: in every completed run_pipeline call, when the revision trigger did
\* not fire final_answer is exactly draft_answer and revise_answer was never
\* invoked; when it fired, revise_answer was invoked exactly once and
\* final_answer is exactly its output.
C1_FinalAnswerFollowsTrigger ==
    (entry = "run_pipeline" /\ pc = "done") =>
        IF NeedsRevision(critic_feedback[1])
        THEN /\ TimesInvoked("revise") = 1
             /\ revised # <<>>
             /\ result[1].final_answer = revised[1]
        ELSE /\ TimesInvoked("revise") = 0
             /\ revised = <<>>
             /\ result[1].final_answer = draft_answer[1]
             /\ result[1].final_answer = result[1].draft_answer

\* a completed run whose critic reported a high hallucination risk in valid
\* JSON, without the marker: the draft is returned unrevised
C1_Witness ==
    /\ entry = "run_pipeline" /\ pc = "done"
    /\ critic_feedback = << <<"{", "seven", "}">> >>
    /\ TimesInvoked("revise") = 0
    /\ result[1].final_answer = "draft B"

\* C2: in run_pipeline the revision branch is taken if and only if the raw
\* critic text contains "VERDICT: REVISE" when case is ignored; nothing else
\* in the critic output (scores, risk, issues) decides it.
C2_TriggerIffMarker ==
    (entry = "run_pipeline" /\ critic_feedback # <<>>
        /\ (pc = "done" \/ (pc = "failed" /\ raised[1].stage = "revise"))) =>
        (TimesInvoked("revise") > 0
            <=> ContainsIgnoreCase(CharsOf(critic_feedback[1]), MARKER))

\* the marker in mixed case, split over two lexemes, triggered the revision
C2_Witness ==
    /\ entry = "run_pipeline" /\ pc = "done"
    /\ critic_feedback = << <<"VERDICT:", " revise">> >>
    /\ TimesInvoked("revise") = 1
    /\ result[1].final_answer = "revision"

\* C3: in /api/run with mode "responsible" the rewrite request is issued only
\* when the critic's verdict requires revision; otherwise no rewrite request
\* is made and the returned answer is the draft.
C3_RewriteOnlyWhenRequired ==
    (entry = "run_query" /\ critic_feedback # <<>>) =>
        /\ TimesInvoked("revise") > 0 => NeedsRevision(critic_feedback[1])
        /\ (pc = "done" /\ ~NeedsRevision(critic_feedback[1])) =>
               result[1].answer = draft_answer[1]

\* C4: a responsible run invokes retrieval, planner, draft and critic once
\* each and in that order, each after the previous one returned; revision at
\* most once, after the critic, and the critic never again after revision.
C4_StagesOnceInOrder ==
    (entry = "run_pipeline" \/ (entry = "run_query" /\ mode = "responsible")) =>
        /\ IsPrefix(StagesInvoked, <<"retrieve", "plan", "draft", "critic", "revise">>)
        /\ pc = "done" => Len(StagesInvoked) >= 4
        /\ Len(StagesInvoked) >= 2 => query_vec # <<>>
        /\ Len(StagesInvoked) >= 3 => plan # <<>>
        /\ Len(StagesInvoked) >= 4 => draft_answer # <<>>
        /\ Len(StagesInvoked) >= 5 => critic_feedback # <<>>

\* a completed run that went through all five stages
C4_Witness ==
    /\ entry = "run_pipeline" /\ pc = "done"
    /\ StagesInvoked = <<"retrieve", "plan", "draft", "critic", "revise">>

\* C5: one run_pipeline call retrieves once; planner, draft, critic and
\* revision all get the retrieved chunk texts in retrieval order; the
\* returned retrieved_docs is that list and sources[i] is the source id of
\* the chunk whose text is retrieved_docs[i].
C5_OneRetrievalSharedByAllStages ==
    (entry = "run_pipeline") =>
        /\ TimesInvoked("retrieve") <= 1
        /\ pc \notin {"retrieving", "failed"} => TimesInvoked("retrieve") = 1
        /\ \A i \in DOMAIN calls :
              calls[i].stage # "retrieve" =>
                  /\ Len(calls[i].docs) = Len(retrieved)
                  /\ \A j \in DOMAIN retrieved : calls[i].docs[j] = retrieved[j].text
        /\ pc = "done" =>
              /\ Len(result[1].retrieved_docs) = Len(retrieved)
              /\ Len(result[1].sources) = Len(retrieved)
              /\ \A j \in DOMAIN retrieved :
                    /\ result[1].retrieved_docs[j] = retrieved[j].text
                    /\ \E c \in DOMAIN rag.texts :
                          /\ rag.texts[c] = result[1].retrieved_docs[j]
                          /\ rag.sources[c] = result[1].sources[j]

\* a completed run over three retrieved chunks with all four generation stages
C5_Witness ==
    /\ entry = "run_pipeline" /\ pc = "done"
    /\ Len(result[1].retrieved_docs) = 3
    /\ result[1].sources[1] # result[1].sources[3]
    /\ TimesInvoked("revise") = 1

\* the critic output is the verdict object with its seven fields
MatchesVerdictSchema(text) ==
    /\ JsonLoads(text).ok
    /\ JsonLoads(text).val.type = "dict"
    /\ JsonLoads(text).val.keys = VerdictKeys

\* C6: for every critic output that is not the verdict object (prose, no
\* JSON object, JSON that is not the seven-field object) a responsible run
\* still completes with the final answer populated and the score and risk
\* fields absent or null; the run never fails because of the output's shape.
C6_MalformedCriticNeverFailsRun ==
    (entry \in {"run_pipeline", "run_query"} /\ critic_feedback # <<>>
        /\ ~MatchesVerdictSchema(critic_feedback[1])) =>
        /\ raised # <<>> => raised[1].cls \in ErrClasses
        /\ pc = "done" => final_answer # <<>>
        /\ (pc = "done" /\ entry = "run_query") => result[1].meta.scored = {}

\* C7: parse_critic_json returns a dict for every text: the parsed object
\* when the whole text parses, else the object between the first "{" and the
\* last "}", else the empty dict.
C7_ParseAlwaysReturnsDict ==
    (entry = "parse_critic_json" /\ pc = "returned") =>
        LET text  == critic_feedback[1]
            whole == JsonLoads(text)
            span  == IF Find(text, "{") # -1 /\ RFind(text, "}") > Find(text, "{")
                     THEN SubSeq(text, Find(text, "{") + 1, RFind(text, "}") + 1)
                     ELSE <<>>
        IN  /\ critic_parsed[1].type = "dict"
            /\ whole.ok => critic_parsed[1] = whole.val
            /\ (~whole.ok /\ JsonLoads(span).ok) => critic_parsed[1] = JsonLoads(span).val
            /\ (~whole.ok /\ ~JsonLoads(span).ok) => critic_parsed[1] = EmptyDict

\* C8: when retrieval or a generation stage fails the run stops there: the
\* failed request was made once, it is the last invocation of the run, and
\* no result record is returned.
C8_FailureAbortsRun ==
    (entry \in {"run_pipeline", "run_query"} /\ raised # <<>>
        /\ raised[1].cls \in ErrClasses) =>
        /\ pc = "failed"
        /\ result = <<>>
        /\ final_answer = <<>>
        /\ calls # <<>>
        /\ calls[Len(calls)].stage = raised[1].stage
        /\ TimesInvoked(raised[1].stage) = 1

\* the draft request failed after retrieval and planning succeeded
C8_Witness ==
    /\ entry = "run_pipeline" /\ pc = "failed"
    /\ raised # <<>>
    /\ raised[1].stage = "draft"
    /\ StagesInvoked = <<"retrieve", "plan", "draft">>
    /\ plan # <<>>
    /\ result = <<>>

\* the exception a stage raises with a class
ExcOf(stage, cls) == [stage |-> stage, cls |-> cls, endpoint |-> EndpointOf(stage)]

\* C9: the failure shown to the caller of a failed run tells which stage
\* failed and why: no failure of another stage, and no other reason, is
\* shown in the same way.
C9_FailureNamesStageAndReason ==
    (entry \in {"run_pipeline", "run_query"} /\ pc = "failed"
        /\ raised[1].cls \in ErrClasses) =>
        \A st \in {"retrieve", "plan", "draft", "critic", "revise"}, c \in ErrClasses :
            Surface(entry, ExcOf(st, c)) = surfaced[1]
                => (st = raised[1].stage /\ c = raised[1].cls)

\* C10: for every index of n chunks and every integer k, retrieve returns at
\* most k entries (all n when k >= n), no source id twice, text and source of
\* an entry from the same chunk, similarities in non-increasing order.
C10_RetrieveTopK ==
    (entry = "retrieve" /\ pc = "returned") =>
        /\ Len(retrieved) <= k
        /\ k >= Len(rag.texts) => Len(retrieved) = Len(rag.texts)
        /\ \A i, j \in DOMAIN retrieved : i # j => retrieved[i].source # retrieved[j].source
        /\ \A i \in DOMAIN retrieved :
              \E c \in DOMAIN rag.texts :
                  rag.texts[c] = retrieved[i].text /\ rag.sources[c] = retrieved[i].source
        /\ \A i \in 1..(Len(retrieved) - 1) :
              SimGeq(retrieved[i].similarity, retrieved[i + 1].similarity)

\* two similarities are exactly equal
SimEq(a, b) == ~a.nan /\ ~b.nan /\ a.num * b.den = b.num * a.den

\* the corpus position of a retrieved entry of the retrieve harness
ChunkIndexOf(r) == r.text[2]

\* C11: chunks of exactly equal similarity come in ascending corpus index,
\* in the result and at the top-k cut, so the result is that of a stable
\* descending sort and the same on every call.
C11_TiesByCorpusIndex ==
    (entry = "retrieve" /\ pc = "returned") =>
        /\ \A i, j \in DOMAIN retrieved :
              (i < j /\ SimEq(retrieved[i].similarity, retrieved[j].similarity))
                  => ChunkIndexOf(retrieved[i]) < ChunkIndexOf(retrieved[j])
        /\ \A i \in DOMAIN retrieved, c \in DOMAIN rag.texts :
              (/\ \A j \in DOMAIN retrieved : ChunkIndexOf(retrieved[j]) # c
               /\ SimEq(CosSim(query_vec[1], rag.embeddings[c]), retrieved[i].similarity))
                  => ChunkIndexOf(retrieved[i]) < c

\* the similarity -1 of the claim
MinusOne(s) == ~s.nan /\ s.num = 0 - s.den

\* C12: with a zero-norm query vector or chunk embedding the similarity is
\* not undefined: it is the minimum -1, and the chunk ranks last.
C12_ZeroNormIsMinimum ==
    (entry = "retrieve" /\ pc = "returned") =>
        \A i \in DOMAIN retrieved :
            /\ ~retrieved[i].similarity.nan
            /\ (Dot(query_vec[1], query_vec[1]) = 0
                    \/ Dot(rag.embeddings[ChunkIndexOf(retrieved[i])],
                           rag.embeddings[ChunkIndexOf(retrieved[i])]) = 0)
                  => MinusOne(retrieved[i].similarity)

\* C13: a retrieve call leaves texts, sources and embeddings of the index
\* as they were and makes exactly one embedding request, holding only the
\* query text.
C13_RetrieveReadOnlyOneEmbedding ==
    [][(entry = "retrieve" /\ pc = "call") =>
          /\ rag' = rag
          /\ calls = <<>>
          /\ calls' = <<Invocation("embed", <<query>>)>>]_vars

\* a call that returned two chunks of a larger index after one request
C13_Witness ==
    /\ entry = "retrieve" /\ pc = "returned"
    /\ Len(rag.texts) = 3
    /\ Len(retrieved) = 2
    /\ calls = <<Invocation("embed", <<query>>)>>

(***************************************************************************)
(* rag.split_into_chunks: a paragraph is the sequence of its words, a      *)
(* chunk the sequence of the words joined into it.  One loop iteration     *)
(* per step.                                                               *)
(***************************************************************************)
\* longest paragraph, in words
MaxParaWords == 5
\* largest max_words and overlap a caller passes
MaxWindow == 3

\* the i-th word of block b of document f
Word(f, b, i) == <<f, b, i>>

\* the words of a paragraph of n words
ParagraphOf(f, b, n) == [i \in 1..n |-> Word(f, b, i)]

\* seq[a:b] of Python, for integers a and b of either sign
PySlice(seq, a, b) ==
    LET n  == Len(seq)
        lo == IF a < 0 THEN (IF a + n < 0 THEN 0 ELSE a + n) ELSE (IF a > n THEN n ELSE a)
        hi == IF b < 0 THEN (IF b + n < 0 THEN 0 ELSE b + n) ELSE (IF b > n THEN n ELSE b)
    IN  SubSeq(seq, lo + 1, hi)

\* a slice that takes one word more than max_words
ChunkWords_OneMore(ws, st, mw) == PySlice(ws, st, st + mw + 1)

\* end = start + max_words; chunk_words = words[start:end]
ChunkWords(ws, st, mw) == PySlice(ws, st, st + mw)

\* a window that slides one word too far
NextStart_SkipsWord(st, mw, ov) == st + mw - ov + 1

\* start = end - overlap
NextStart(st, mw, ov) == st + mw - ov

\* the while loop of split_into_chunks, run to its end
RECURSIVE SplitLoop(_, _, _, _, _)
SplitLoop(ws, mw, ov, st, acc) ==
    IF st < Len(ws)
    THEN SplitLoop(ws, mw, ov, NextStart(st, mw, ov), Append(acc, ChunkWords(ws, st, mw)))
    ELSE acc

\* split_into_chunks(text, max_words, overlap), for overlap < max_words
split_into_chunks(ws, mw, ov) ==
    IF ws = <<>> THEN <<>>
    ELSE IF Len(ws) <= mw THEN <<ws>>
    ELSE SplitLoop(ws, mw, ov, 0, <<>>)

SplitInit ==
    /\ entry = "split_into_chunks"
    /\ pc = "call"
    /\ words \in {ParagraphOf("p", 1, n) : n \in 0..MaxParaWords}
    /\ max_words \in 1..MaxWindow
    /\ overlap \in 0..MaxWindow
    /\ loop_start = 0
    /\ chunks = <<>>
    /\ path = <<>>
    /\ texts = <<>>
    /\ batch_size = 0
    /\ all_vectors = <<>>
    /\ mode = ""
    /\ rag = CorpusIndex
    /\ query = ""
    /\ k = 0
    /\ query_vec = <<>>
    /\ retrieved = <<>>
    /\ plan = <<>>
    /\ draft_answer = <<>>
    /\ critic_feedback = <<>>
    /\ critic_parsed = <<>>
    /\ revised = <<>>
    /\ final_answer = <<>>
    /\ calls = <<>>
    /\ result = <<>>
    /\ raised = <<>>
    /\ surfaced = <<>>
    /\ ShellIdle
    /\ OthersIdle

\* what split_into_chunks leaves alone
SplitFrame ==
    UNCHANGED <<others, shell, entry, rag, query, k, query_vec, retrieved, plan, draft_answer,
                critic_feedback, critic_parsed, revised, final_answer, calls, result,
                raised, surfaced, mode, path, words, max_words, overlap, texts,
                batch_size, all_vectors>>

\* words = text.split(); the two early returns; chunks = []; start = 0
Split_Enter ==
    /\ entry = "split_into_chunks" /\ pc = "call"
    /\ IF words = <<>>
       THEN chunks' = <<>> /\ pc' = "returned"
       ELSE IF Len(words) <= max_words
            THEN chunks' = <<words>> /\ pc' = "returned"
            ELSE chunks' = <<>> /\ pc' = "loop"
    /\ loop_start' = 0
    /\ SplitFrame

\* one iteration of while start < len(words); the list is cut off at
\* MaxParaWords + 1 chunks, which a loop that advances never reaches
Split_Iterate ==
    /\ entry = "split_into_chunks" /\ pc = "loop"
    /\ loop_start < Len(words)
    /\ Len(chunks) <= MaxParaWords
    /\ chunks' = Append(chunks, ChunkWords(words, loop_start, max_words))
    /\ loop_start' = NextStart(loop_start, max_words, overlap)
    /\ pc' = "loop"
    /\ SplitFrame

\* the loop condition fails: return chunks
Split_Return ==
    /\ entry = "split_into_chunks" /\ pc = "loop"
    /\ loop_start >= Len(words)
    /\ pc' = "returned"
    /\ UNCHANGED <<chunks, loop_start>>
    /\ SplitFrame

SplitNext ==
    \/ Split_Enter
    \/ Split_Iterate
    \/ Split_Return

SpecSplit == SplitInit /\ [][SplitNext]_vars

\* C14: every chunk has at most max_words words, and a paragraph of one up
\* to max_words words comes back as exactly one chunk, the whole paragraph.
C14_ChunksWithinMaxWords ==
    entry = "split_into_chunks" =>
        /\ \A i \in DOMAIN chunks : Len(chunks[i]) <= max_words
        /\ (pc = "returned" /\ words # <<>> /\ Len(words) <= max_words)
              => chunks = <<words>>

\* C14 as stated: every chunk has at most max_words words, and every
\* paragraph of at most max_words words, the one without words included,
\* comes back as exactly one chunk.
C14_AsStated ==
    entry = "split_into_chunks" =>
        /\ \A i \in DOMAIN chunks : Len(chunks[i]) <= max_words
        /\ (pc = "returned" /\ Len(words) <= max_words) => chunks = <<words>>

\* a long paragraph cut into several chunks, one of them of full size
C14_Witness ==
    /\ entry = "split_into_chunks" /\ pc = "returned"
    /\ overlap < max_words
    /\ Len(words) > max_words
    /\ Len(chunks) >= 2
    /\ \E i \in DOMAIN chunks : Len(chunks[i]) = max_words

\* the words of a chunk
WordsIn(chunk) == {chunk[i] : i \in DOMAIN chunk}

\* C15: for 0 <= overlap < max_words < len(words) the i-th chunk (from 0)
\* starts at word i * (max_words - overlap), and two consecutive chunks
\* share exactly overlap words: the last overlap words of the earlier one
\* are the first overlap words of the later one.
C15_ChunksStartAndOverlap ==
    (/\ entry = "split_into_chunks" /\ pc = "returned"
     /\ overlap < max_words /\ Len(words) > max_words) =>
        /\ \A i \in DOMAIN chunks :
              /\ chunks[i] # <<>>
              /\ chunks[i][1] = words[(i - 1) * (max_words - overlap) + 1]
        /\ \A i \in 1..(Len(chunks) - 1) :
              /\ Len(chunks[i]) >= overlap
              /\ Len(chunks[i + 1]) >= overlap
              /\ SubSeq(chunks[i], Len(chunks[i]) - overlap + 1, Len(chunks[i]))
                    = SubSeq(chunks[i + 1], 1, overlap)
              /\ Cardinality(WordsIn(chunks[i]) \cap WordsIn(chunks[i + 1])) = overlap

(***************************************************************************)
(* rag.embed_texts, one request per step.                                  *)
(***************************************************************************)
\* longest list of texts handed to embed_texts
MaxTexts == 4
\* largest batch size
MaxBatch == 3

\* the row the embedding capability returns for text t: a function of t
EmbedVec(t) == <<"embedding", t>>

\* a batch that stops one text early
BatchAt_DropsLast(ts, st, bs) == PySlice(ts, st, st + bs - 1)

\* end = start + batch_size; batch = texts[start:end]
BatchAt(ts, st, bs) == PySlice(ts, st, st + bs)

\* the rows of a batch, last text first
BatchVectors_Reversed(batch) ==
    [i \in DOMAIN batch |-> EmbedVec(batch[Len(batch) + 1 - i])]

\* batch_vectors = [item.embedding for item in response.data]
BatchVectors(batch) == [i \in DOMAIN batch |-> EmbedVec(batch[i])]

\* batch_size of embed_texts(self.texts), scaled to the corpora of the model
DefaultBatchSize == 2

\* an exception leaves a function of rag.py and reaches its caller unchanged
Raise(fn, cls, msg) ==
    /\ raised' = <<[stage |-> fn, cls |-> cls, endpoint |-> ""]>>
    /\ surfaced' = <<[kind |-> cls, detail |-> msg]>>
    /\ pc' = "failed"

\* the texts of the embed_texts harness
HarnessTexts == {ParagraphOf("t", 1, 1), ParagraphOf("t", 2, 2)}

\* the lists of texts of the harness, the empty one included
TextLists == UNION {[1..n -> HarnessTexts] : n \in 0..MaxTexts}

\* no index instance
NoInstance == [texts |-> <<>>, sources |-> <<>>, embeddings |-> <<>>]

EmbedInit ==
    /\ entry = "embed_texts"
    /\ pc = "embed_call"
    /\ texts \in TextLists
    /\ batch_size \in 1..MaxBatch
    /\ loop_start = 0
    /\ all_vectors = <<>>
    /\ path = <<>>
    /\ words = <<>>
    /\ max_words = 0
    /\ overlap = 0
    /\ chunks = <<>>
    /\ mode = ""
    /\ rag = NoInstance
    /\ query = ""
    /\ k = 0
    /\ query_vec = <<>>
    /\ retrieved = <<>>
    /\ plan = <<>>
    /\ draft_answer = <<>>
    /\ critic_feedback = <<>>
    /\ critic_parsed = <<>>
    /\ revised = <<>>
    /\ final_answer = <<>>
    /\ calls = <<>>
    /\ result = <<>>
    /\ raised = <<>>
    /\ surfaced = <<>>
    /\ ShellIdle
    /\ OthersIdle

\* what embed_texts leaves alone
EmbedFrame ==
    UNCHANGED <<others, shell, entry, query, k, query_vec, retrieved, plan, draft_answer,
                critic_feedback, critic_parsed, revised, final_answer, mode, path,
                words, max_words, overlap, chunks, texts, batch_size>>

\* if not texts: raise ValueError(...); all_vectors = []
Embed_Enter ==
    /\ entry \in {"embed_texts", "SimpleRAG"} /\ pc = "embed_call"
    /\ IF texts = <<>>
       THEN Raise("embed_texts", "ValueError", "embed_texts() received an empty list of texts.")
       ELSE pc' = "embed_loop" /\ UNCHANGED <<raised, surfaced>>
    /\ all_vectors' = <<>>
    /\ loop_start' = 0
    /\ UNCHANGED <<rag, calls, result>>
    /\ EmbedFrame

\* one iteration of for start in range(0, len(texts), batch_size): one request
\* to the capability, which answers with one row per text or raises
Embed_Request ==
    /\ entry \in {"embed_texts", "SimpleRAG"} /\ pc = "embed_loop"
    /\ loop_start < Len(texts)
    /\ calls' = Append(calls, Invocation("embed", BatchAt(texts, loop_start, batch_size)))
    /\ \/ /\ all_vectors' = all_vectors \o BatchVectors(BatchAt(texts, loop_start, batch_size))
          /\ loop_start' = loop_start + batch_size
          /\ pc' = "embed_loop"
          /\ UNCHANGED <<raised, surfaced>>
       \/ /\ \E c \in ErrClasses : Raise("embed_texts", c, "embeddings")
          /\ UNCHANGED <<all_vectors, loop_start>>
    /\ UNCHANGED <<rag, result>>
    /\ EmbedFrame

\* vectors = np.array(all_vectors, dtype="float32"); return vectors, which
\* SimpleRAG.__init__ stores as self.embeddings
Embed_Return ==
    /\ entry \in {"embed_texts", "SimpleRAG"} /\ pc = "embed_loop"
    /\ loop_start >= Len(texts)
    /\ IF entry = "SimpleRAG"
       THEN /\ rag' = [rag EXCEPT !.embeddings = all_vectors]
            /\ result' = <<rag'>>
            /\ pc' = "done"
       ELSE /\ result' = <<all_vectors>>
            /\ pc' = "returned"
            /\ UNCHANGED rag
    /\ UNCHANGED <<calls, raised, surfaced, all_vectors, loop_start>>
    /\ EmbedFrame

EmbedNext ==
    \/ Embed_Enter
    \/ Embed_Request
    \/ Embed_Return

SpecEmbed == EmbedInit /\ [][EmbedNext]_vars

\* a list of lists, joined
RECURSIVE Flatten(_)
Flatten(ss) == IF ss = <<>> THEN <<>> ELSE Head(ss) \o Flatten(Tail(ss))

\* C18: for a non-empty list and batch_size >= 1, every text goes into
\* exactly one request of at most batch_size texts, the requests follow the
\* input order, and the rows returned are the texts' vectors in input
\* order, whatever the batch size.
C18_BatchesCoverTextsInOrder ==
    (entry = "embed_texts" /\ pc = "returned") =>
        /\ Flatten([i \in DOMAIN calls |-> calls[i].docs]) = texts
        /\ \A i \in DOMAIN calls :
              /\ calls[i].stage = "embed"
              /\ Len(calls[i].docs) >= 1
              /\ Len(calls[i].docs) <= batch_size
        /\ result = <<[i \in DOMAIN texts |-> EmbedVec(texts[i])]>>

\* several requests were needed and the last batch is a short one
C18_Witness ==
    /\ entry = "embed_texts" /\ pc = "returned"
    /\ Len(calls) >= 2
    /\ Len(calls[Len(calls)].docs) < batch_size
    /\ \E i, j \in DOMAIN texts : texts[i] # texts[j]

(***************************************************************************)
(* rag.load_corpus and SimpleRAG.__init__.                                 *)
(***************************************************************************)
\* names a corpus directory may hold, <<stem, extension>>, in sorted() order
SortedNames == <<<<"a", "txt">>, <<"b", "md">>, <<"b", "txt">>>>

FileNames == {SortedNames[i] : i \in DOMAIN SortedNames}

\* what f.read() gives: the blocks between blank lines, each the number of
\* its words (0: a block of white space)
Contents ==
    {<<>>, <<0>>, <<1>>, <<MaxParaWords>>, <<1, 0, 2>>, <<0, MaxParaWords, 1>>}

\* the paths a caller may pass: none, a regular file, or a directory that
\* can or cannot be listed
CorpusPaths ==
    {[kind |-> knd, readable |-> FALSE, files |-> <<>>] : knd \in {"missing", "file"}}
        \cup {[kind |-> "dir", readable |-> r, files |-> f] :
                 r \in BOOLEAN, f \in UNION {[S -> Contents] : S \in SUBSET FileNames}}

\* max_words and overlap of load_corpus, scaled to the paragraphs of the model
ParaMaxWords == 3
ParaOverlap == 1

\* txt_files = sorted(glob(os.path.join(path, "*.txt"))); glob lists nothing
\* in a directory it cannot read
TxtFiles(p) ==
    IF p.readable
    THEN SelectSeq(SortedNames, LAMBDA n : n \in DOMAIN p.files /\ n[2] = "txt")
    ELSE <<>>

\* paragraphs = [p.strip() for p in content.split("\n\n") if p.strip()]
Paragraphs(name, content) ==
    SelectSeq([b \in DOMAIN content |-> ParagraphOf(name, b, content[b])],
              LAMBDA para : para # <<>>)

\* the chunks appended for one file: for para in paragraphs, for chunk in
\* split_into_chunks(para, 200, 40), if not chunk: continue
FileChunks(name, content) ==
    LET paras == Paragraphs(name, content)
        kept  == Flatten([i \in DOMAIN paras |->
                     SelectSeq(split_into_chunks(paras[i], ParaMaxWords, ParaOverlap),
                               LAMBDA c : c # <<>>)])
    IN  [j \in DOMAIN kept |-> [file |-> name, chunk |-> kept[j]]]

\* the chunks appended over all files, in the order of txt_files
AllChunks(p) ==
    Flatten([i \in DOMAIN TxtFiles(p) |->
                FileChunks(TxtFiles(p)[i], p.files[TxtFiles(p)[i]])])

\* a counter that starts again at 0 in every file
ChunkIndexAt_PerFile(all, i) == Cardinality({j \in 1..(i - 1) : all[j].file = all[i].file})

\* chunk_index = 0 before the loop; chunk_index += 1 after every append
ChunkIndexAt(all, i) == i - 1

\* sources.append(f"{filename}#{chunk_index}")
SourceOf(all, i) == <<all[i].file, "#", ChunkIndexAt(all, i)>>

\* load_corpus(path)
load_corpus(p) ==
    LET all == AllChunks(p)
    IN  IF p.kind # "dir"
        THEN [ok |-> FALSE, cls |-> "ValueError",
              msg |-> "Corpus path must be a directory", texts |-> <<>>, sources |-> <<>>]
        ELSE IF TxtFiles(p) = <<>>
        THEN [ok |-> FALSE, cls |-> "FileNotFoundError",
              msg |-> "No .txt files found in directory", texts |-> <<>>, sources |-> <<>>]
        ELSE [ok |-> TRUE, cls |-> "", msg |-> "",
              texts   |-> [i \in DOMAIN all |-> all[i].chunk],
              sources |-> [i \in DOMAIN all |-> SourceOf(all, i)]]

BuildInit ==
    /\ entry = "SimpleRAG"
    /\ pc = "call"
    /\ path \in CorpusPaths
    /\ rag = NoInstance
    /\ texts = <<>>
    /\ batch_size = 0
    /\ loop_start = 0
    /\ all_vectors = <<>>
    /\ words = <<>>
    /\ max_words = 0
    /\ overlap = 0
    /\ chunks = <<>>
    /\ mode = ""
    /\ query = ""
    /\ k = 0
    /\ query_vec = <<>>
    /\ retrieved = <<>>
    /\ plan = <<>>
    /\ draft_answer = <<>>
    /\ critic_feedback = <<>>
    /\ critic_parsed = <<>>
    /\ revised = <<>>
    /\ final_answer = <<>>
    /\ calls = <<>>
    /\ result = <<>>
    /\ raised = <<>>
    /\ surfaced = <<>>
    /\ ShellIdle
    /\ OthersIdle

\* self.texts, self.sources = load_corpus(corpus_path), then the call of
\* embed_texts(self.texts)
Build_LoadCorpus ==
    /\ entry = "SimpleRAG" /\ pc = "call"
    /\ IF load_corpus(path).ok
       THEN /\ rag' = [texts      |-> load_corpus(path).texts,
                       sources    |-> load_corpus(path).sources,
                       embeddings |-> <<>>]
            /\ texts' = load_corpus(path).texts
            /\ batch_size' = DefaultBatchSize
            /\ pc' = "embed_call"
            /\ UNCHANGED <<raised, surfaced>>
       ELSE /\ Raise("load_corpus", load_corpus(path).cls, load_corpus(path).msg)
            /\ UNCHANGED <<rag, texts, batch_size>>
    /\ UNCHANGED <<others, shell, entry, query, k, query_vec, retrieved, plan, draft_answer,
                   critic_feedback, critic_parsed, revised, final_answer, calls,
                   result, mode, path, words, max_words, overlap, loop_start, chunks,
                   all_vectors>>

BuildNext ==
    \/ Build_LoadCorpus
    \/ Embed_Enter
    \/ Embed_Request
    \/ Embed_Return

SpecBuild == BuildInit /\ [][BuildNext]_vars

\* position of a file name in the sorted listing
NameRank(name) == CHOOSE i \in DOMAIN SortedNames : SortedNames[i] = name

\* load_corpus has returned to SimpleRAG.__init__
CorpusLoaded == entry = "SimpleRAG" /\ pc # "call" /\ load_corpus(path).ok

\* C16: the source ids load_corpus returns are pairwise distinct and the
\* number after "#" of the i-th chunk (from 0) is i: one count over all
\* files in sorted order, not reset per file and without gaps.
C16_SourceIdsRunOverAllFiles ==
    CorpusLoaded =>
        /\ \A i \in DOMAIN rag.sources : rag.sources[i][3] = i - 1
        /\ \A i, j \in DOMAIN rag.sources : i # j => rag.sources[i] # rag.sources[j]
        /\ \A i, j \in DOMAIN rag.sources :
              i < j => NameRank(rag.sources[i][1]) <= NameRank(rag.sources[j][1])

\* two files with chunks, one of them with a block of white space that was
\* dropped and a paragraph cut into several chunks
C16_Witness ==
    /\ CorpusLoaded
    /\ \E i, j \in DOMAIN rag.sources : rag.sources[i][1] # rag.sources[j][1]
    /\ \E n \in DOMAIN path.files : path.files[n] = <<0, MaxParaWords, 1>> /\ n[2] = "txt"
    /\ Len(rag.sources) >= 4

\* C17: after a successful construction texts, sources and embeddings have
\* the same length, position i is the same chunk in all three, and every
\* chunk text is non-empty and has exactly one embedding row.
C17_IndexAligned ==
    (entry = "SimpleRAG" /\ pc = "done") =>
        /\ Len(rag.texts) = Len(rag.sources)
        /\ Len(rag.texts) = Len(rag.embeddings)
        /\ Len(rag.texts) = Len(AllChunks(path))
        /\ \A i \in DOMAIN rag.texts :
              /\ rag.texts[i] # <<>>
              /\ rag.texts[i] = AllChunks(path)[i].chunk
              /\ rag.sources[i][1] = AllChunks(path)[i].file
              /\ rag.texts[i][1][1] = rag.sources[i][1]
              /\ rag.embeddings[i] = EmbedVec(rag.texts[i])

\* an index of two files built with more than one embedding request
C17_Witness ==
    /\ entry = "SimpleRAG" /\ pc = "done"
    /\ Len(calls) >= 2
    /\ Len(rag.embeddings) >= 3
    /\ \E i, j \in DOMAIN rag.sources : rag.sources[i][1] # rag.sources[j][1]

\* the documents load_corpus is meant to read
EligibleDocs(p) == {n \in DOMAIN p.files : n[2] = "txt"}

\* C19: construction fails with the empty-corpus error when the directory
\* holds no eligible document and with the invalid-path error when the
\* path is not a readable directory; the two kinds differ, and in both
\* cases no embedding request is made and no index comes out.
C19_CorpusErrors ==
    (entry = "SimpleRAG" /\ pc \in {"done", "failed"}) =>
        /\ (path.kind # "dir" \/ ~path.readable) =>
              /\ pc = "failed"
              /\ raised[1].cls = "ValueError"
              /\ calls = <<>>
              /\ result = <<>>
        /\ (path.kind = "dir" /\ path.readable /\ EligibleDocs(path) = {}) =>
              /\ pc = "failed"
              /\ raised[1].cls = "FileNotFoundError"
              /\ calls = <<>>
              /\ result = <<>>

\* a run of a reduced mode: plain (no retrieval) or grounded (retrieval only)
PlainRun ==
    (entry = "run_query" /\ mode = "baseline") \/ entry = "answer_llm_only"

GroundedRun ==
    (entry = "run_query" /\ mode = "rag") \/ entry = "answer_simple_rag"

\* C20: the plain mode makes no retrieval and exactly one generation
\* request; the grounded mode makes exactly one retrieval and then exactly
\* one generation request whose context is the retrieved chunks; neither
\* invokes the planner, the critic or the revision.
C20_ReducedModes ==
    /\ (PlainRun \/ GroundedRun) =>
          \A i \in DOMAIN calls : calls[i].stage \in {"retrieve", "generate"}
    /\ (PlainRun /\ pc = "done") =>
          /\ StagesInvoked = <<"generate">>
          /\ calls[1].docs = <<>>
          /\ retrieved = <<>>
    /\ (GroundedRun /\ pc = "done") =>
          /\ StagesInvoked = <<"retrieve", "generate">>
          /\ calls[2].docs = RetrievedTexts(retrieved)

\* a grounded /api/run request answered from three retrieved chunks
C20_Witness ==
    /\ entry = "run_query" /\ mode = "rag" /\ pc = "done"
    /\ Len(retrieved) = 3
    /\ calls[2].docs = RetrievedTexts(retrieved)
    /\ result # <<>>

\* C21: in one process the corpus is loaded and embedded exactly once at
\* start-up, and every retrieval of the process, from whatever entry point,
\* is answered by that one index.
C21_OneIndexPerProcess ==
    served # <<>> =>
        /\ Len(loaded) = 1
        /\ \A i \in DOMAIN served : served[i] = loaded[1]

\* d.get(key) of a dict: <<value>>, or <<>> (None) when the key is missing
DictGet(d, key) == IF key \in DOMAIN d THEN <<d[key]>> ELSE <<>>

\* C23: the dict a completed run_pipeline call returns has the keys
\* "final_answer" and "critic", and result["critic"] is the verdict the
\* critic produced in that run.
C23_ResultHasCriticKey ==
    (entry = "run_pipeline" /\ pc = "done") =>
        /\ "final_answer" \in DOMAIN result[1]
        /\ "critic" \in DOMAIN result[1]
        /\ DictGet(result[1], "critic") = <<critic_feedback[1]>>

\* the request was answered with status 400 and nothing was asked of the
\* index or of a capability
RejectedUntouched ==
    /\ pc = "rejected"
    /\ result = <<BadRequest(result[1].error)>>
    /\ calls = <<>>
    /\ served = <<>>
    /\ query_vec = <<>>

C29_DocumentLabelsFromOne ==
    /\ (entry = "answer_simple_rag" /\ pc = "done") =>
          /\ Len(prompt[1]) = Len(retrieved)
          /\ \A j \in DOMAIN retrieved :
                /\ prompt[1][j].doc = retrieved[j].text
                /\ prompt[1][j].source = retrieved[j].source
                /\ prompt[1][j].label = j
                /\ prompt[1][j].label = DocsText(RetrievedTexts(retrieved))[j].label
    /\ (entry = "run_pipeline" /\ prompt # <<>>) =>
          \A j \in DOMAIN prompt[1] : prompt[1][j].label = j

\* C27: split_into_chunks terminates for every paragraph, every max_words
\* >= 1 and every overlap >= 0, because each iteration of the loop moves
\* the window start strictly forward.
C27_StartStrictlyIncreases ==
    [][(entry = "split_into_chunks" /\ pc = "loop" /\ pc' = "loop")
          => loop_start' > loop_start]_vars

\* the position in its paragraph of a word
PositionOf(w) == w[3]

\* the word positions a chunk holds
PositionsIn(chunk) == {PositionOf(chunk[i]) : i \in DOMAIN chunk}

\* the call C28 is about: a paragraph longer than the window, an overlap
\* shorter than the window, the list returned
LongParagraphSplit ==
    /\ entry = "split_into_chunks" /\ pc = "returned"
    /\ overlap < max_words
    /\ Len(words) > max_words

\* C28: for a paragraph longer than max_words and 0 <= overlap < max_words
\* the chunks cover the word sequence without gaps and in order: every
\* word position is in some chunk, the first chunk starts at word 0 and the
\* last chunk ends at the last word.
C28_ChunksCoverInOrder ==
    LongParagraphSplit =>
        /\ chunks # <<>>
        /\ \A j \in DOMAIN chunks :
              /\ chunks[j] # <<>>
              /\ \A i \in 1..(Len(chunks[j]) - 1) :
                    PositionOf(chunks[j][i + 1]) = PositionOf(chunks[j][i]) + 1
        /\ UNION {PositionsIn(chunks[j]) : j \in DOMAIN chunks} = 1..Len(words)
        /\ chunks[1][1] = words[1]
        /\ chunks[Len(chunks)][Len(chunks[Len(chunks)])] = words[Len(words)]
        /\ \A j \in 1..(Len(chunks) - 1) :
              /\ PositionOf(chunks[j + 1][1]) > PositionOf(chunks[j][1])
              /\ PositionOf(chunks[j + 1][1]) <= PositionOf(chunks[j][Len(chunks[j])]) + 1
        /\ chunks = split_into_chunks(words, max_words, overlap)

\* a five-word paragraph cut by a window of three with overlap one
C28_Witness ==
    /\ LongParagraphSplit
    /\ Len(words) = 5 /\ max_words = 3 /\ overlap = 1
    /\ Len(chunks) = 3

----------------------------------------------------------------------------
\* scripts/experiment_loan_approval.py: simple_trust_metrics

\* the variables of a pipeline run, at rest
RunIdle ==
    /\ rag = CorpusIndex
    /\ query = ""
    /\ k = 0
    /\ query_vec = <<>>
    /\ retrieved = <<>>
    /\ plan = <<>>
    /\ draft_answer = <<>>
    /\ critic_feedback = <<>>
    /\ critic_parsed = <<>>
    /\ revised = <<>>
    /\ final_answer = <<>>
    /\ calls = <<>>

\* Python values an artifacts mapping holds: None, a list, a string, and a
\* dict given by its keys and by what it holds under "suggestions"
NoneValue == [type |-> "NoneType", items |-> <<>>, suggestions |-> <<>>]
ListValue(items) == [type |-> "list", items |-> items, suggestions |-> <<>>]
StrValue(chars) == [type |-> "str", items |-> chars, suggestions |-> <<>>]
DictValue(keys, suggestions) == [type |-> "dict", items |-> keys, suggestions |-> suggestions]

\* bool(v): None, the empty list, the empty string and the empty dict are false
Bool(v) == v.type # "NoneType" /\ v.items # <<>>

\* values under "retrieved_docs": what main stores and what the tests pass
RetrievedDocsValues ==
    {NoneValue, ListValue(<<>>), ListValue(<<"doc">>), StrValue(<<"(see UI / RAG module)">>)}

\* values under "critic": None, a verdict dict with or without suggestions,
\* the raw critic text
CriticValues ==
    {NoneValue,
     DictValue(<<>>, <<>>),
     DictValue(<<"risk_level">>, <<>>),
     DictValue(<<"suggestions">>, <<NoneValue>>),
     DictValue(<<"suggestions">>, <<ListValue(<<>>)>>),
     DictValue(<<"risk_level", "suggestions">>, <<ListValue(<<"x">>)>>),
     StrValue(<<"risk_level: low">>)}

\* the artifacts mappings: each key absent or present
ArtifactsMappings ==
    {[key \in keys |->
        CASE key = "retrieved_docs" -> docs
          [] key = "critic" -> critic
          [] OTHER -> NoneValue] :
        keys \in SUBSET {"retrieved_docs", "critic", "plan"},
        docs \in RetrievedDocsValues,
        critic \in CriticValues}

\* the marks of a TrustMetrics field, one lexeme per character
Cross == <<"X">>
Triangle == <<"triangle">>
Checks(n) == [i \in 1..n |-> "check"]

TrustMetrics(sv, rv, ac, uc) ==
    [source_verifiability |-> sv, risk_visibility |-> rv,
     actionability |-> ac, user_confidence |-> uc]

\* d.get(key, default)
DictGetOr(d, key, default) == IF key \in DOMAIN d THEN d[key] ELSE default

\* v.get("suggestions") is defined for a dict only
HasGet(v) == v.type = "dict"

\* v.get("suggestions") of a dict v
GetSuggestions(v) == IF v.suggestions = <<>> THEN NoneValue ELSE v.suggestions[1]

MetricsInit ==
    /\ entry = "simple_trust_metrics"
    /\ pc = "call"
    /\ mode \in Modes
    /\ artifacts \in {<<a>> : a \in ArtifactsMappings}
    /\ result = <<>>
    /\ raised = <<>>
    /\ surfaced = <<>>
    /\ RunIdle
    /\ LocalsIdle
    /\ ShellIdle
    /\ runs = <<>>
    /\ isRunning = FALSE
    /\ runBtnDisabled = FALSE
    /\ outGrid = <<>>
    /\ inflight = 0
    /\ runNo = 0

\* simple_trust_metrics(mode, artifacts): the three reads of artifacts, then
\* the TrustMetrics of the mode
SimpleTrustMetricsCall ==
    /\ entry = "simple_trust_metrics" /\ pc = "call"
    /\ LET has_sources == Bool(DictGetOr(artifacts[1], "retrieved_docs", NoneValue))
           has_critic  == Bool(DictGetOr(artifacts[1], "critic", NoneValue))
           critic      == DictGetOr(artifacts[1], "critic", DictValue(<<>>, <<>>))
           has_suggestions == Bool(GetSuggestions(critic))
       IN  IF ~HasGet(critic)
           THEN /\ Raise("simple_trust_metrics", "AttributeError",
                         "object has no attribute 'get'")
                /\ result' = result
           ELSE /\ result' =
                     <<CASE mode = "baseline" ->
                              TrustMetrics(Cross, Cross, Triangle, Cross)
                         [] mode = "rag" ->
                              TrustMetrics(Checks(1), Triangle, Checks(1), Triangle)
                         [] OTHER ->
                              TrustMetrics(Checks(2), Checks(3), Checks(3), Checks(3))>>
                /\ pc' = "returned"
                /\ UNCHANGED <<raised, surfaced>>
    /\ UNCHANGED <<others, shell, locals, entry, mode, rag, query, k, query_vec,
                   retrieved, plan, draft_answer, critic_feedback, critic_parsed,
                   revised, final_answer, calls>>

MetricsNext == SimpleTrustMetricsCall

SpecMetrics == MetricsInit /\ [][MetricsNext]_vars

\* the marks start with a check mark
StartsWithCheck(marks) == marks # <<>> /\ marks[1] = "check"

\* C24: simple_trust_metrics returns a TrustMetrics and never raises, for
\* each of the three modes and every artifacts mapping, one whose "critic"
\* entry is present with the value None included; baseline gets "X" for
\* source_verifiability and risk_visibility, rag a source_verifiability
\* that starts with a check mark, responsible a risk_visibility and an
\* actionability that start with a check mark.
C24_TrustMetricsNeverRaises ==
    (entry = "simple_trust_metrics" /\ pc # "call") =>
        /\ raised = <<>>
        /\ pc = "returned"
        /\ result # <<>>
        /\ mode = "baseline" =>
              /\ result[1].source_verifiability = Cross
              /\ result[1].risk_visibility = Cross
        /\ mode = "rag" => StartsWithCheck(result[1].source_verifiability)
        /\ mode = "responsible" =>
              /\ StartsWithCheck(result[1].risk_visibility)
              /\ StartsWithCheck(result[1].actionability)

----------------------------------------------------------------------------
\* app_new.py: compute_evidence_score

\* longest list of retrieved items given to compute_evidence_score
MaxDocs == 2

\* similarities of the harness: below 0, inside [0, 1], above 1, and nan
EvidenceFloats ==
    {[nan |-> FALSE, num |-> 0 - 1, den |-> 2], [nan |-> FALSE, num |-> 1, den |-> 2],
     SimOne, [nan |-> FALSE, num |-> 3, den |-> 2], NaN}

\* the items of the harness: not a dict, a dict without "similarity", a
\* dict whose similarity is None or text, a dict with a float
EvidenceItems ==
    {OtherItem, DictItem(<<>>), DictItem(<<NoneSimilarity>>), DictItem(<<TextSimilarity>>)}
    \cup {DictItem(<<FloatValue(x)>>) : x \in EvidenceFloats}

EvidenceLists ==
    UNION {[1..n -> EvidenceItems] : n \in 0..MaxDocs}

EvidenceInit ==
    /\ entry = "compute_evidence_score"
    /\ pc = "call"
    /\ retrieved \in EvidenceLists
    /\ result = <<>>
    /\ raised = <<>>
    /\ surfaced = <<>>
    /\ mode = ""
    /\ rag = CorpusIndex
    /\ query = ""
    /\ k = 0
    /\ query_vec = <<>>
    /\ plan = <<>>
    /\ draft_answer = <<>>
    /\ critic_feedback = <<>>
    /\ critic_parsed = <<>>
    /\ revised = <<>>
    /\ final_answer = <<>>
    /\ calls = <<>>
    /\ LocalsIdle
    /\ ShellIdle
    /\ OthersIdle

\* compute_evidence_score(docs), the value it returns
ComputeEvidenceScoreCall ==
    /\ entry = "compute_evidence_score" /\ pc = "call"
    /\ result' = <<compute_evidence_score(retrieved)>>
    /\ pc' = "returned"
    /\ UNCHANGED <<others, shell, locals, entry, mode, rag, query, k, query_vec,
                   retrieved, plan, draft_answer, critic_feedback, critic_parsed,
                   revised, final_answer, calls, raised, surfaced>>

EvidenceNext == ComputeEvidenceScoreCall

SpecEvidence == EvidenceInit /\ [][EvidenceNext]_vars

\* the item carries a numeric similarity: a dict whose "similarity" is a
\* float that is a number
CarriesNumericSimilarity(d) ==
    /\ d.type = "dict"
    /\ d.similarity # <<>>
    /\ d.similarity[1].type = "float"
    /\ ~d.similarity[1].nan

\* the numeric similarities of a list of items
NumericSimilarities(docs) ==
    {FloatOf(docs[j].similarity[1])[1] :
        j \in {i \in DOMAIN docs : CarriesNumericSimilarity(docs[i])}}

\* x clamped into [0, 1]
Clamp01(x) == IF x.num < 0 THEN SimZero ELSE IF x.num > x.den THEN SimOne ELSE x

\* C26: compute_evidence_score returns None exactly when no retrieved item
\* carries a numeric similarity (the empty list included); otherwise it
\* returns the largest similarity clamped into [0, 1]; so the result is
\* None or a number of [0, 1].
C26_EvidenceScoreIsClampedMaximum ==
    (entry = "compute_evidence_score" /\ pc = "returned") =>
        /\ (result[1] = <<>>) <=> (NumericSimilarities(retrieved) = {})
        /\ result[1] # <<>> =>
              /\ ~result[1][1].nan
              /\ SimGeq(result[1][1], SimZero) /\ SimGeq(SimOne, result[1][1])
              /\ \E m \in NumericSimilarities(retrieved) :
                    /\ \A x \in NumericSimilarities(retrieved) : SimGeq(m, x)
                    /\ SimEq(result[1][1], Clamp01(m))

\* the part of C26 that holds: the result is None or a number of [0, 1]
ScoreInUnitInterval ==
    (entry = "compute_evidence_score" /\ pc = "returned" /\ result[1] # <<>>) =>
        /\ ~result[1][1].nan
        /\ SimGeq(result[1][1], SimZero) /\ SimGeq(SimOne, result[1][1])

----------------------------------------------------------------------------
\* app_new.py: the script of HTML_PAGE (runCurrentMode, clearOutput)

\* most runs started from one page
MaxRuns == 3

\* the text the textarea is served with
PageQuestion == "Is SpaceX a reliable company?"

\* contents of the textarea
TextareaValues == {"", " ", PageQuestion}

\* value.trim()
Trim(v) == IF v = " " THEN "" ELSE v

\* a card appended to outGrid by a run
Card(run, kind) == [run |-> run, kind |-> kind]

\* card.remove(): the card leaves the grid if it is in it
RemoveCard(grid, card) == SelectSeq(grid, LAMBDA c : c # card)

\* the JSON bodies /api/run answers a valid request with, by what the page
\* tests of them: truthy meta, retrieved, plan, safe_answer || answer, critic
PayloadsOf(md) ==
    CASE md = "baseline" ->
            {[meta |-> TRUE, retrieved |-> TRUE, plan |-> FALSE, answer |-> a, critic |-> FALSE] :
                a \in BOOLEAN}
      [] md = "rag" ->
            {[meta |-> TRUE, retrieved |-> TRUE, plan |-> FALSE, answer |-> a, critic |-> FALSE] :
                a \in BOOLEAN}
      [] OTHER ->
            {[meta |-> TRUE, retrieved |-> TRUE, plan |-> pl, answer |-> a, critic |-> c] :
                pl \in BOOLEAN, a \in BOOLEAN, c \in BOOLEAN}

\* the cards appended between res.json() and the answer card
CardsBeforeAnswer(run, payload) ==
    (IF payload.meta THEN <<Card(run, "meta")>> ELSE <<>>)
    \o (IF payload.retrieved THEN <<Card(run, "docs")>> ELSE <<>>)
    \o (IF payload.plan THEN <<Card(run, "toggle"), Card(run, "plan")>> ELSE <<>>)

\* the critic card, appended after the answer
CriticCards(run, payload) ==
    IF payload.critic THEN <<Card(run, "critic")>> ELSE <<>>

\* a finally block that leaves the button disabled
Finally_LeavesButtonDisabled ==
    /\ isRunning' = FALSE
    /\ runBtnDisabled' = TRUE

\* finally { isRunning = false; runBtn.disabled = false; }
Finally ==
    /\ isRunning' = FALSE
    /\ runBtnDisabled' = FALSE

PageInit ==
    /\ entry = "page"
    /\ pc = "idle"
    /\ mode = "baseline"
    /\ query = PageQuestion
    /\ isRunning = FALSE
    /\ runBtnDisabled = FALSE
    /\ outGrid = <<>>
    /\ inflight = 0
    /\ runNo = 0
    /\ artifacts = <<>>
    /\ runs = <<>>
    /\ result = <<>>
    /\ raised = <<>>
    /\ surfaced = <<>>
    /\ rag = CorpusIndex
    /\ k = 0
    /\ query_vec = <<>>
    /\ retrieved = <<>>
    /\ plan = <<>>
    /\ draft_answer = <<>>
    /\ critic_feedback = <<>>
    /\ critic_parsed = <<>>
    /\ revised = <<>>
    /\ final_answer = <<>>
    /\ calls = <<>>
    /\ LocalsIdle
    /\ ShellIdle

\* what the page script leaves alone
PageFrame ==
    UNCHANGED <<artifacts, runs, process, loaded, served, prompt, locals, entry, rag,
                k, query_vec, retrieved, plan, draft_answer, critic_feedback,
                critic_parsed, revised, final_answer, calls, raised, surfaced>>

\* the user edits the question
EditQuery ==
    /\ entry = "page"
    /\ \E v \in TextareaValues \ {query} : query' = v
    /\ UNCHANGED <<mode, pc, request, result, isRunning, runBtnDisabled, outGrid,
                   inflight, runNo>>
    /\ PageFrame

\* selectMode(el)
SelectMode ==
    /\ entry = "page"
    /\ \E md \in Modes \ {mode} : mode' = md
    /\ UNCHANGED <<query, pc, request, result, isRunning, runBtnDisabled, outGrid,
                   inflight, runNo>>
    /\ PageFrame

\* a click on ASK (a disabled button delivers no click): runCurrentMode up
\* to its await fetch(...)
RunCurrentMode ==
    /\ entry = "page"
    /\ ~runBtnDisabled
    /\ IF Trim(query) = "" \/ isRunning
       THEN UNCHANGED <<pc, request, isRunning, runBtnDisabled, outGrid, inflight, runNo>>
       ELSE /\ runNo < MaxRuns
            /\ isRunning' = TRUE
            /\ runBtnDisabled' = TRUE
            /\ runNo' = runNo + 1
            /\ outGrid' = <<Card(runNo + 1, "processing")>>
            /\ request' = <<[query |-> Trim(query), mode |-> mode]>>
            /\ inflight' = inflight + 1
            /\ pc' = "fetching"
    /\ UNCHANGED <<query, mode, result>>
    /\ PageFrame

\* fetch and res.json() resolve: the processing card goes, the cards of the
\* payload are appended up to await typeWriter(...), or to the end of try
FetchResolves ==
    /\ entry = "page" /\ pc = "fetching"
    /\ inflight' = inflight - 1
    /\ \E payload \in PayloadsOf(request[1].mode) :
          IF payload.answer
          THEN /\ outGrid' = RemoveCard(outGrid, Card(runNo, "processing"))
                                \o CardsBeforeAnswer(runNo, payload)
                                \o <<Card(runNo, "answer")>>
               /\ result' = <<payload>>
               /\ pc' = "typing"
               /\ UNCHANGED <<isRunning, runBtnDisabled>>
          ELSE /\ outGrid' = RemoveCard(outGrid, Card(runNo, "processing"))
                                \o CardsBeforeAnswer(runNo, payload)
                                \o CriticCards(runNo, payload)
               /\ result' = <<>>
               /\ pc' = "idle"
               /\ Finally
    /\ UNCHANGED <<query, mode, request, runNo>>
    /\ PageFrame

\* fetch or res.json() rejects: catch, then finally
FetchRejects ==
    /\ entry = "page" /\ pc = "fetching"
    /\ inflight' = inflight - 1
    /\ outGrid' = Append(RemoveCard(outGrid, Card(runNo, "processing")), Card(runNo, "error"))
    /\ result' = <<>>
    /\ pc' = "idle"
    /\ Finally
    /\ UNCHANGED <<query, mode, request, runNo>>
    /\ PageFrame

\* typeWriter resolves: the critic card, then finally
TypeWriterResolves ==
    /\ entry = "page" /\ pc = "typing"
    /\ outGrid' = outGrid \o CriticCards(runNo, result[1])
    /\ result' = <<>>
    /\ pc' = "idle"
    /\ Finally
    /\ UNCHANGED <<query, mode, request, inflight, runNo>>
    /\ PageFrame

\* a click on CLEAR: clearOutput()
ClearOutput ==
    /\ entry = "page"
    /\ outGrid' = <<>>
    /\ UNCHANGED <<query, mode, pc, request, result, isRunning, runBtnDisabled,
                   inflight, runNo>>
    /\ PageFrame

PageNext ==
    \/ EditQuery
    \/ SelectMode
    \/ RunCurrentMode
    \/ FetchResolves
    \/ FetchRejects
    \/ TypeWriterResolves
    \/ ClearOutput

SpecPage == PageInit /\ [][PageNext]_vars

\* C30: the page has at most one /api/run request in flight; a run that
\* has ended, in success or in failure, has left the running flag cleared
\* and the ASK button enabled; after any sequence of ASK and CLEAR the
\* output area holds cards of the latest run only.
C30_OneRunLatestCardsOnly ==
    entry = "page" =>
        /\ inflight <= 1
        /\ inflight = 1 => isRunning
        /\ pc = "idle" => (~isRunning /\ ~runBtnDisabled)
        /\ \A j \in DOMAIN outGrid : outGrid[j].run = runNo

\* a second run has ended in failure, and its card alone is shown
C30_Witness ==
    /\ entry = "page" /\ pc = "idle"
    /\ runNo = 2
    /\ outGrid = <<Card(2, "error")>>
    /\ ~isRunning /\ ~runBtnDisabled

----------------------------------------------------------------------------
\* answer_pipeline.run_pipeline and app_new.run_query, several runs at once

\* most runs in progress in one process
MaxConcurrent == 2

RunIds == 1..MaxConcurrent

\* the capability responses of the concurrent runs
ConcurrentDrafts == {"draft A"}
ConcurrentRevisions == {"revision"}
ConcurrentCritics == {<<"{", "sumRev", "}">>, <<"fine">>}
ConcurrentErrClasses == {"APIConnectionError"}

\* the calls a process receives: run_pipeline(query, k) or POST /api/run
\* with a question and one of the three modes
ConcurrentCalls(p) ==
    {[entry |-> "run_pipeline", mode |-> "", k |-> DefaultK] :
        e \in EntryPointsOf(p) \cap {"run_pipeline"}}
    \cup {[entry |-> "run_query", mode |-> md, k |-> DefaultK] :
        e \in EntryPointsOf(p) \cap {"run_query"}, md \in Modes}

\* the locals of a call that has not been made
IdleRun ==
    [entry |-> "", mode |-> "", k |-> 0, pc |-> "idle", retrieved |-> <<>>, plan |-> "",
     draft_answer |-> "", critic_feedback |-> <<>>, final_answer |-> "",
     result |-> <<>>, raised |-> <<>>]

\* the locals of a call on entry
FreshRun(call) ==
    [IdleRun EXCEPT !.entry = call.entry, !.mode = call.mode, !.k = call.k,
                    !.pc = IF call.entry = "run_query" /\ call.mode = "baseline"
                           THEN "answering" ELSE "retrieving"]

\* a response of a capability: the value it returns, or the exception
DocsResponse(docs) == [ok |-> TRUE, cls |-> "", docs |-> docs, text |-> "", critic |-> <<>>]
TextResponse(text) == [ok |-> TRUE, cls |-> "", docs |-> <<>>, text |-> text, critic |-> <<>>]
CriticResponse(t) == [ok |-> TRUE, cls |-> "", docs |-> <<>>, text |-> "", critic |-> t]
ErrorResponse(cls) == [ok |-> FALSE, cls |-> cls, docs |-> <<>>, text |-> "", critic |-> <<>>]

\* the run is between its call and its return
InProgress(r) == r.pc \notin {"idle", "done", "failed"}

\* the values the capability of the stage at r.pc may return, read from
\* the shared index for retrieval
OkResponsesAt(r, index) ==
    CASE r.pc = "retrieving" ->
            {DocsResponse(res) : res \in UNION {Retrieve(index, qv, r.k) : qv \in QueryVecs}}
      [] r.pc = "planning"   -> {TextResponse(p) : p \in Plans}
      [] r.pc = "drafting"   -> {TextResponse(d) : d \in ConcurrentDrafts}
      [] r.pc = "answering"  -> {TextResponse(d) : d \in ConcurrentDrafts}
      [] r.pc = "critiquing" -> {CriticResponse(t) : t \in ConcurrentCritics}
      [] r.pc \in {"branch", "rewriting"} -> {TextResponse(v) : v \in ConcurrentRevisions}
      [] OTHER -> {}

\* the dict run_pipeline returns, from the locals r
PipelineResultOf(r) ==
    [retrieved_docs  |-> RetrievedTexts(r.retrieved),
     sources         |-> RetrievedSources(r.retrieved),
     plan            |-> r.plan,
     draft_answer    |-> r.draft_answer,
     critic_feedback |-> r.critic_feedback,
     final_answer    |-> r.final_answer]

\* the JSON body run_query returns, from the locals r
QueryResponseOf(r) ==
    [retrieved |-> r.retrieved, plan |-> r.plan, critic_raw |-> r.critic_feedback,
     answer |-> r.final_answer, mode |-> r.mode]

\* return of the call with the locals r
Returned(r, body) == [r EXCEPT !.result = <<body>>, !.pc = "done"]

\* the locals after the stage at r.pc got the response resp: the
\* assignment of the stage and everything up to the next request
Apply(r, resp) ==
    IF ~resp.ok
    THEN [r EXCEPT !.pc = "failed",
                   !.raised = <<[stage |-> r.pc, cls |-> resp.cls]>>]
    ELSE CASE r.pc = "retrieving" ->
                [r EXCEPT !.retrieved = resp.docs,
                          !.pc = IF r.mode = "rag" THEN "answering" ELSE "planning"]
           [] r.pc = "planning" -> [r EXCEPT !.plan = resp.text, !.pc = "drafting"]
           [] r.pc = "drafting" -> [r EXCEPT !.draft_answer = resp.text, !.pc = "critiquing"]
           [] r.pc = "critiquing" ->
                IF r.entry = "run_query"
                THEN [r EXCEPT !.critic_feedback = resp.critic, !.pc = "rewriting"]
                ELSE IF NeedsRevision(resp.critic)
                     THEN [r EXCEPT !.critic_feedback = resp.critic, !.pc = "branch"]
                     ELSE Returned([r EXCEPT !.critic_feedback = resp.critic,
                                             !.final_answer = r.draft_answer],
                                   PipelineResultOf([r EXCEPT !.critic_feedback = resp.critic,
                                                              !.final_answer = r.draft_answer]))
           [] r.pc = "branch" ->
                Returned([r EXCEPT !.final_answer = resp.text],
                         PipelineResultOf([r EXCEPT !.final_answer = resp.text]))
           [] r.pc = "rewriting" ->
                IF parse_critic_json(r.critic_feedback).truthy
                   /\ parse_critic_json(r.critic_feedback).type # "dict"
                THEN [r EXCEPT !.final_answer = resp.text, !.pc = "failed",
                               !.raised = <<[stage |-> "respond", cls |-> "AttributeError"]>>]
                ELSE Returned([r EXCEPT !.final_answer = resp.text],
                              QueryResponseOf([r EXCEPT !.final_answer = resp.text]))
           [] r.pc = "answering" ->
                Returned([r EXCEPT !.final_answer = resp.text],
                         QueryResponseOf([r EXCEPT !.final_answer = resp.text]))
           [] OTHER -> r

\* locals kept in one place for all the runs of the process
StoreRun_SharedLocals(i, r) == [j \in RunIds |-> r]

\* the locals of run i are its own: the other runs keep theirs
StoreRun(i, r) == [runs EXCEPT ![i] = r]

ConcurrentInit ==
    /\ entry = "concurrent"
    /\ pc = "serving"
    /\ process \in {"answer_pipeline", "app_new"}
    /\ loaded = BuiltAtImport(process)
    /\ rag = CorpusIndex
    /\ runs = [i \in RunIds |-> IdleRun]
    /\ request = [i \in RunIds |-> <<>>]
    /\ calls = [i \in RunIds |-> <<>>]
    /\ served = <<>>
    /\ prompt = <<>>
    /\ mode = ""
    /\ query = ""
    /\ k = 0
    /\ query_vec = <<>>
    /\ retrieved = <<>>
    /\ plan = <<>>
    /\ draft_answer = <<>>
    /\ critic_feedback = <<>>
    /\ critic_parsed = <<>>
    /\ revised = <<>>
    /\ final_answer = <<>>
    /\ result = <<>>
    /\ raised = <<>>
    /\ surfaced = <<>>
    /\ artifacts = <<>>
    /\ isRunning = FALSE
    /\ runBtnDisabled = FALSE
    /\ outGrid = <<>>
    /\ inflight = 0
    /\ runNo = 0
    /\ LocalsIdle

\* what concurrent runs leave alone: the shared index among it
ConcurrentFrame ==
    UNCHANGED <<entry, pc, process, loaded, rag, served, prompt, mode, query, k,
                query_vec, retrieved, plan, draft_answer, critic_feedback,
                critic_parsed, revised, final_answer, result, raised, surfaced,
                artifacts, isRunning, runBtnDisabled, outGrid, inflight, runNo, locals>>

\* a caller enters run_pipeline, or a request reaches run_query
Concurrent_Call ==
    /\ entry = "concurrent"
    /\ \E i \in RunIds :
          /\ runs[i].pc = "idle"
          /\ \E call \in ConcurrentCalls(process) :
                /\ request' = [request EXCEPT ![i] = <<call>>]
                /\ runs' = StoreRun(i, FreshRun(call))
    /\ UNCHANGED calls
    /\ ConcurrentFrame

\* the capability answers the stage some run waits in
Concurrent_Stage ==
    /\ entry = "concurrent"
    /\ \E i \in RunIds :
          /\ InProgress(runs[i])
          /\ \E resp \in OkResponsesAt(runs[i], rag) :
                /\ calls' = [calls EXCEPT ![i] = Append(@, resp)]
                /\ runs' = StoreRun(i, Apply(runs[i], resp))
    /\ UNCHANGED request
    /\ ConcurrentFrame

\* the capability raises in the stage some run waits in
Concurrent_Raise ==
    /\ entry = "concurrent"
    /\ \E i \in RunIds :
          /\ InProgress(runs[i])
          /\ \E cls \in ConcurrentErrClasses :
                /\ calls' = [calls EXCEPT ![i] = Append(@, ErrorResponse(cls))]
                /\ runs' = StoreRun(i, Apply(runs[i], ErrorResponse(cls)))
    /\ UNCHANGED request
    /\ ConcurrentFrame

ConcurrentNext ==
    \/ Concurrent_Call
    \/ Concurrent_Stage
    \/ Concurrent_Raise

SpecConcurrent == ConcurrentInit /\ [][ConcurrentNext]_vars

\* the run executed alone: its locals after the responses heard, in order
RECURSIVE Replay(_, _)
Replay(r, heard) ==
    IF heard = <<>> THEN r
    ELSE CHOOSE after \in {Apply(before, heard[Len(heard)]) :
                              before \in {Replay(r, SubSeq(heard, 1, Len(heard) - 1))}} : TRUE

\* the locals run i would have had it been the only run
Alone(i) ==
    IF request[i] = <<>> THEN IdleRun ELSE Replay(FreshRun(request[i][1]), calls[i])

\* C22: in any interleaving of two or more concurrent runs each run's
\* result is the result it would produce alone with the same capability
\* responses, the failure of one run neither changes nor blocks another,
\* and the shared index is never modified.
C22_RunsAreIndependent ==
    /\ [](entry = "concurrent" =>
            /\ \A i \in RunIds :
                  /\ runs[i] = Alone(i)
                  /\ runs[i].pc = "done" => runs[i].result = Alone(i).result
            /\ rag = CorpusIndex)
    /\ [][entry = "concurrent" =>
            /\ \A j \in RunIds :
                  (runs[j].pc # "failed" /\ runs'[j].pc = "failed") =>
                      \A i \in RunIds \ {j} :
                          /\ runs'[i] = runs[i]
                          /\ InProgress(runs[i]) => OkResponsesAt(runs'[i], rag') # {}
            /\ rag' = rag]_vars

\* one run has failed part of the way and the other has returned its result
C22_Witness ==
    /\ entry = "concurrent"
    /\ \E i, j \in RunIds :
          /\ i # j
          /\ runs[i].pc = "failed" /\ Len(calls[i]) >= 2
          /\ runs[j].pc = "done" /\ runs[j].result # <<>>

====
